---- MODULE Spec2Model ----
(***************************************************************************)
(* Model of the VeChain n8n node pack:                                     *)
(*   - the polling trigger (VechainTrigger.poll) with its persisted cursor *)
(*     workflowStaticData.lastBlockNumber, run against a growing chain;    *)
(*   - the build / sign / delegate / submit pipeline of the send           *)
(*     operations (transaction resource helper sendTransaction and the     *)
(*     inline vet resource transfer);                                      *)
(*   - the handlers of the trigger categories, Vechain.execute, the        *)
(*     transaction lookups and the ClauseBuilder;                          *)
(*   - the unit converter, the energy calculator and the chain tags.       *)
(***************************************************************************)
EXTENDS Integers, Sequences, FiniteSets, TLC

\* ------------------------------------------------------------------ bounds
\* Highest block number the modelled chain grows to.
MaxHead == 4
\* How far behind the true head the node's answer to getBlock('best') may be.
MaxLag == 1

\* ------------------------------------------------------- program constants
\* Confirmation depth of the blockFinalized category.
FinalityDepth == 12

VARIABLES
    \* --- chain node (environment of the trigger)
    head,             \* number of the newest block the chain holds
    chainLogs,        \* chainLogs[b]: the transfer logs of block b, b in 1..head
    \* --- trigger configuration (node parameters)
    triggerOn,
    address,
    \* --- persisted by the host between ticks
    lastBlockNumber,  \* << >> when workflowStaticData.lastBlockNumber is undefined
    \* --- one record of locals per running poll() invocation
    tick,
    \* --- observation of what the trigger did
    lastTick,         \* what the most recently ended tick did
    firstBest,        \* best.number of the first run, << >> before it
    emitCount,        \* emitCount[b]: successful ticks whose range held block b
    eventCount,       \* eventCount[id]: how often the event of log id was emitted
    \* --- one execution of a send operation (action node)
    operation,        \* the operation being executed, "none" before the first
    params,           \* node parameters of the item
    credentials,      \* the vechainNetwork credentials
    step,             \* position in the operation's steps, 0 when not running
    pending,          \* the awaited call in flight, "none" otherwise
    callLog,          \* starts and ends of the steps, in the order they happened
    estimates,        \* answer of client.estimateGas, << >> when not asked
    txBody,           \* << >> until the body is built
    signingHash,      \* << >> until tx.signingHash() is taken
    txSignature,      \* the signatures put together for tx.signature
    sent,             \* the transactions handed to client.sendTransaction
    delegationRequests, \* POSTs made to the delegation service
    delegationReply,  \* what the delegation service answered
    outcome,          \* how the operation ended
    \* --- processLargeTransactions applied to the transfers of one block
    threshold,        \* node parameter threshold (VET), in tenths of a VET
    monitorAddress,   \* node parameter monitorAddress, "" when not set
    blockTransfers,        \* what client.getTransfers answers for the block
    largeResult,      \* [status, events]: how the call ended and what it pushed
    \* --- the loop of one catch-up tick in blockFinalized mode
    finalityTick,     \* [last, best, blockNum, events, processed]
    \* --- Vechain.execute over a batch of input items
    items,            \* per input item, whether its operation returns or throws
    continueOnFail,   \* this.continueOnFail()
    itemIndex,        \* the loop variable i (0-based)
    execReturnData,   \* returnData of execute: the records pushed so far
    executed,         \* the indices whose operation was called
    execResult,       \* [status, output]: how execute ended and what it returned
    \* --- one getTransaction / getReceipt operation
    lookupOp,         \* "getTransaction" or "getReceipt"
    lookupTxId,       \* node parameter txId
    nodeAnswer,       \* what the Thor node answers to the GET
    clientResult,     \* what the ThorClient method gave: a value or a throw
    lookupResult,     \* what the operation gave: a result or a throw
    \* --- one ClauseBuilder
    clauses,          \* the builder's private clause list
    added,            \* the clause intents of the add calls that returned, in order
    lastCall,          \* [op, result] of the last method called
    \* --- one convertUnits call and the conversion of its result back
    conversion,    \* [value, fromUnit, toUnit, result, back]
    \* --- one calculateVthoGenerated call and the call with twice the amount
    energy,    \* [vetAmount, seconds, generated, doubled]
    \* --- a trigger over many ticks whose chain calls all answer
    feed,    \* [mode, threshold, head, cursor, activatedAt, finalized, failed]
    \* --- processTokenTransfers / processNftTransfers applied to the logs of one block
    tokenScan,    \* [mode, address, contract, blockLogs, result]
    \* --- the chain tags the resources take for the selected network
    chainTags    \* [network, clientTag, localTag]

pollVars == <<head, chainLogs, triggerOn, address, lastBlockNumber, tick,
              lastTick, firstBest, emitCount, eventCount>>

sendVars == <<operation, params, credentials, step, pending, callLog, estimates,
              txBody, signingHash, txSignature, sent, delegationRequests,
              delegationReply, outcome>>

largeVars == <<threshold, monitorAddress, blockTransfers, largeResult>>

\* What the actions of one part of the model leave alone.
execVars == <<items, continueOnFail, itemIndex, execReturnData, executed, execResult>>

lookupVars == <<lookupOp, lookupTxId, nodeAnswer, clientResult, lookupResult>>

builderVars == <<clauses, added, lastCall>>

nonPollVars == <<sendVars, largeVars, finalityTick, execVars, lookupVars, builderVars, conversion, energy, feed, tokenScan, chainTags>>
nonSendVars == <<pollVars, largeVars, finalityTick, execVars, lookupVars, builderVars, conversion, energy, feed, tokenScan, chainTags>>
nonLargeVars == <<pollVars, sendVars, finalityTick, execVars, lookupVars, builderVars, conversion, energy, feed, tokenScan, chainTags>>
nonFinalityVars == <<pollVars, sendVars, largeVars, execVars, lookupVars, builderVars, conversion, energy, feed, tokenScan, chainTags>>
nonExecVars == <<pollVars, sendVars, largeVars, finalityTick, lookupVars, builderVars, conversion, energy, feed, tokenScan, chainTags>>
nonLookupVars == <<pollVars, sendVars, largeVars, finalityTick, execVars, builderVars, conversion, energy, feed, tokenScan, chainTags>>
nonBuilderVars == <<pollVars, sendVars, largeVars, finalityTick, execVars, lookupVars, conversion, energy, feed, tokenScan, chainTags>>

nonConvertVars == <<pollVars, sendVars, largeVars, finalityTick, execVars, lookupVars, builderVars, energy, feed, tokenScan, chainTags>>

nonEnergyVars == <<pollVars, sendVars, largeVars, finalityTick, execVars, lookupVars, builderVars, conversion, feed, tokenScan, chainTags>>

nonFeedVars == <<pollVars, sendVars, largeVars, finalityTick, execVars, lookupVars, builderVars, conversion, energy, tokenScan, chainTags>>

nonTokenScanVars == <<pollVars, sendVars, largeVars, finalityTick, execVars, lookupVars, builderVars, conversion, energy, feed, chainTags>>

nonChainTagVars == <<pollVars, sendVars, largeVars, finalityTick, execVars, lookupVars, builderVars, conversion, energy, feed, tokenScan>>

vars == <<pollVars, sendVars, largeVars, finalityTick, execVars, lookupVars, builderVars, conversion, energy, feed, tokenScan, chainTags>>

\* ------------------------------------------------------------- small helpers
None == << >>
Some(x) == <<x>>

RECURSIVE SeqSum(_)
SeqSum(s) == IF s = << >> THEN 0 ELSE Head(s) + SeqSum(Tail(s))

\* String.prototype.toLowerCase over the addresses and unit names the model uses.
ToLowerCase(s) ==
    CASE s = "0xAA" -> "0xaa"
      [] s = "0xBB" -> "0xbb"
      [] s = "VET" -> "vet"
      [] s = "Wei" -> "wei"
      [] OTHER -> s

Blocks == 0..MaxHead

\* ------------------------------------------------------------ chain content
Transfer(s, r, a) == [sender |-> s, recipient |-> r, amount |-> a]

\* The transfer logs a new block may carry.
BlockLogChoices ==
    { << >>,
      << Transfer("0xbb", "0xaa", 5) >>,
      << Transfer("0xAA", "0xbb", 7), Transfer("0xbb", "0xcc", 9) >> }

\* POST /logs/transfer for the range [b, b]: the logs of block b with their meta.
\* The genesis block (number 0) carries no transfer.
FilterTransfers(b) ==
    IF b \in 1..Len(chainLogs)
    THEN [i \in 1..Len(chainLogs[b]) |->
            [sender |-> chainLogs[b][i].sender,
             recipient |-> chainLogs[b][i].recipient,
             amount |-> chainLogs[b][i].amount,
             meta |-> [txID |-> <<b, i>>, blockNumber |-> b]]]
    ELSE << >>

\* The block numbers getBlock('best') may answer with.
BestNumbers == { n \in Blocks : n <= head /\ n >= head - MaxLag }

\* --------------------------------------------------------- trigger categories
BlockCategories == {"newBlock", "blockFinalized"}
VetCategories == {"vetReceived", "vetSent"}
Categories == BlockCategories \cup VetCategories

\* processVetTransfers: the events pushed for the transfer logs of one block.
RECURSIVE VetEvents(_, _, _)
VetEvents(transfers, mode, addr) ==
    IF transfers = << >> THEN << >>
    ELSE LET transfer == Head(transfers)
             addressLower == ToLowerCase(addr)
             isReceived == ToLowerCase(transfer.recipient) = addressLower
             isSent == ToLowerCase(transfer.sender) = addressLower
             rest == VetEvents(Tail(transfers), mode, addr)
         IN IF (mode = "vetReceived" /\ isReceived) \/ (mode = "vetSent" /\ isSent)
            THEN << [type |-> IF isReceived THEN "received" ELSE "sent",
                     from |-> transfer.sender,
                     to |-> transfer.recipient,
                     amount |-> transfer.amount,
                     txId |-> transfer.meta.txID,
                     blockNumber |-> transfer.meta.blockNumber] >> \o rest
            ELSE rest

\* A switch that would take a block exactly FinalityDepth behind as not yet final.
BlockEventsDepthExclusive(mode, blockNum, bestNumber, addr) ==
    CASE mode = "newBlock" ->
            << [blockNumber |-> blockNum, txId |-> <<blockNum, 0>>] >>
      [] mode = "blockFinalized" ->
            IF blockNum < bestNumber - FinalityDepth
            THEN << [blockNumber |-> blockNum, txId |-> <<blockNum, 0>>,
                     finalized |-> TRUE,
                     confirmations |-> bestNumber - blockNum] >>
            ELSE << >>
      [] mode \in VetCategories ->
            VetEvents(FilterTransfers(blockNum), mode, addr)

\* The switch of the poll loop for one fetched block: what is pushed to returnData.
BlockEvents(mode, blockNum, bestNumber, addr) ==
    CASE mode = "newBlock" ->
            << [blockNumber |-> blockNum, txId |-> <<blockNum, 0>>] >>
      [] mode = "blockFinalized" ->
            IF blockNum <= bestNumber - FinalityDepth
            THEN << [blockNumber |-> blockNum, txId |-> <<blockNum, 0>>,
                     finalized |-> TRUE,
                     confirmations |-> bestNumber - blockNum] >>
            ELSE << >>
      [] mode \in VetCategories ->
            VetEvents(FilterTransfers(blockNum), mode, addr)

\* ------------------------------------------------------------- poll: state
Tickers == {1, 2}

IdleTick == [pc |-> "idle", last |-> None, best |-> 0, blockNum |-> 0,
             returnData |-> << >>, fetches |-> 0, visited |-> {}]

NoTick == [kind |-> "none", phase |-> "none", from |-> None, best |-> 0,
           events |-> << >>, fetches |-> 0, range |-> {}]

EventIds == (Blocks \X {0, 1, 2})

PollInit ==
    /\ head = 0
    /\ chainLogs = << >>
    /\ triggerOn \in Categories
    /\ address = "0xAA"
    /\ lastBlockNumber = None
    /\ tick = [t \in Tickers |-> IdleTick]
    /\ lastTick = NoTick
    /\ firstBest = None
    /\ emitCount = [b \in Blocks |-> 0]
    /\ eventCount = [id \in EventIds |-> 0]

\* The chain grows by one block.
MineBlock ==
    /\ head < MaxHead
    /\ \E logs \in BlockLogChoices :
          chainLogs' = Append(chainLogs, logs)
    /\ head' = head + 1
    /\ UNCHANGED <<triggerOn, address, lastBlockNumber, tick, lastTick,
                   firstBest, emitCount, eventCount>>
    /\ UNCHANGED nonPollVars

\* A tick ends: its locals are dropped and what it did is recorded.
EndTick(t, kind, best, events, calls, range) ==
    /\ tick' = [tick EXCEPT ![t] = IdleTick]
    /\ lastTick' = [kind |-> kind,
                    phase |-> tick[t].pc,
                    from |-> tick[t].last,
                    best |-> best,
                    events |-> events,
                    fetches |-> calls,
                    range |-> range]

\* A poll() that would save the blocks it had gone over before it threw.
PollThrowsSavingProgress(t) ==
    /\ EndTick(t, "failed", tick[t].best, << >>, tick[t].fetches, tick[t].visited)
    /\ lastBlockNumber' = IF tick[t].pc = "loop" /\ tick[t].visited # {}
                          THEN Some(tick[t].blockNum - 1)
                          ELSE lastBlockNumber

\* poll() throws: nothing is returned and no line after the failing await runs,
\* so workflowStaticData.lastBlockNumber is not written.
PollThrows(t) ==
    /\ EndTick(t, "failed", tick[t].best, << >>, tick[t].fetches, tick[t].visited)
    /\ lastBlockNumber' = lastBlockNumber

\* poll() is entered: the persisted cursor is read into the local lastBlockNumber.
PollStart(t) ==
    /\ tick[t].pc = "idle"
    /\ tick' = [tick EXCEPT ![t] = [IdleTick EXCEPT !.pc = "best",
                                                      !.last = lastBlockNumber]]
    /\ UNCHANGED <<head, chainLogs, triggerOn, address, lastBlockNumber,
                   lastTick, firstBest, emitCount, eventCount>>
    /\ UNCHANGED nonPollVars

\* await client.getBlock('best') rejects: poll() throws.
BestThrows(t) ==
    /\ tick[t].pc = "best"
    /\ PollThrows(t)
    /\ UNCHANGED <<head, chainLogs, triggerOn, address, firstBest, emitCount,
                   eventCount>>
    /\ UNCHANGED nonPollVars

\* A poll() that would forget its cursor when the node has no best block.
BestNullClearsCursor(t) ==
    /\ tick[t].pc = "best"
    /\ EndTick(t, "nobest", 0, << >>, tick[t].fetches, {})
    /\ lastBlockNumber' = None
    /\ UNCHANGED <<head, chainLogs, triggerOn, address, firstBest, emitCount,
                   eventCount>>
    /\ UNCHANGED nonPollVars

\* await client.getBlock('best') answers null: return null.
BestNull(t) ==
    /\ tick[t].pc = "best"
    /\ EndTick(t, "nobest", 0, << >>, tick[t].fetches, {})
    /\ UNCHANGED <<head, chainLogs, triggerOn, address, lastBlockNumber,
                   firstBest, emitCount, eventCount>>
    /\ UNCHANGED nonPollVars

\* A first run that would leave the current head to the next tick.
CursorBeforeBest(bestNumber) == bestNumber - 1

\* The cursor written by the first run: workflowStaticData.lastBlockNumber =
\* bestBlock.number.
CursorAfterFirstRun(bestNumber) == bestNumber

\* First run: no cursor yet. The cursor becomes best.number, nothing is emitted.
BestFirstRun(t) ==
    /\ tick[t].pc = "best"
    /\ tick[t].last = None
    /\ \E n \in BestNumbers :
          /\ lastBlockNumber' = Some(CursorAfterFirstRun(n))
          /\ firstBest' = Some(n)
          /\ EndTick(t, "first", n, << >>, tick[t].fetches, {})
    /\ UNCHANGED <<head, chainLogs, triggerOn, address, emitCount, eventCount>>
    /\ UNCHANGED nonPollVars

\* No new blocks: best.number <= lastBlockNumber, return null.
BestNoNewBlocks(t) ==
    /\ tick[t].pc = "best"
    /\ tick[t].last # None
    /\ \E n \in BestNumbers :
          /\ n <= tick[t].last[1]
          /\ EndTick(t, "idle", n, << >>, tick[t].fetches, {})
    /\ UNCHANGED <<head, chainLogs, triggerOn, address, lastBlockNumber,
                   firstBest, emitCount, eventCount>>
    /\ UNCHANGED nonPollVars

\* New blocks: the loop over lastBlockNumber + 1 .. bestBlock.number is entered.
BestCatchUp(t) ==
    /\ tick[t].pc = "best"
    /\ tick[t].last # None
    /\ \E n \in BestNumbers :
          /\ n > tick[t].last[1]
          /\ tick' = [tick EXCEPT ![t].pc = "loop",
                                  ![t].best = n,
                                  ![t].blockNum = tick[t].last[1] + 1]
    /\ UNCHANGED <<head, chainLogs, triggerOn, address, lastBlockNumber,
                   lastTick, firstBest, emitCount, eventCount>>
    /\ UNCHANGED nonPollVars

\* Whether the block of the current iteration has to be fetched: the best block
\* object is reused for the last iteration.
NeedsBlockFetch(t) == tick[t].blockNum # tick[t].best

\* A catch-up that would stop the cursor one block short of the range it emitted.
CursorShortOfBest(t) == tick[t].best - 1

\* The cursor written by a catch-up tick that ran to the end of its range.
CursorAfterCatchUp(t) == tick[t].best

\* Count one successful tick for every block number it went over.
CountRange(count, range) ==
    [b \in Blocks |-> IF b \in range THEN count[b] + 1 ELSE count[b]]

\* Count every emitted event by the log it was derived from.
CountEvents(count, events) ==
    [id \in EventIds |->
        count[id] + Cardinality({i \in 1..Len(events) : events[i].txId = id})]

\* await client.getBlock(blockNum) rejects inside the loop: poll() throws, the
\* write of workflowStaticData.lastBlockNumber is never reached.
LoopBlockThrows(t) ==
    /\ tick[t].pc = "loop"
    /\ NeedsBlockFetch(t)
    /\ PollThrows(t)
    /\ UNCHANGED <<head, chainLogs, triggerOn, address, firstBest, emitCount,
                   eventCount>>
    /\ UNCHANGED nonPollVars

\* await client.getBlock(blockNum) answers null: `if (!block) continue`.
LoopBlockNull(t) ==
    /\ tick[t].pc = "loop"
    /\ NeedsBlockFetch(t)
    /\ tick' = [tick EXCEPT ![t].blockNum = tick[t].blockNum + 1,
                            ![t].fetches = tick[t].fetches + 1,
                            ![t].visited = tick[t].visited \cup {tick[t].blockNum}]
    /\ UNCHANGED <<head, chainLogs, triggerOn, address, lastBlockNumber,
                   lastTick, firstBest, emitCount, eventCount>>
    /\ UNCHANGED nonPollVars

\* The block is there but await client.getTransfers(...) rejects: poll() throws.
LoopLogsThrow(t) ==
    /\ tick[t].pc = "loop"
    /\ triggerOn \in VetCategories
    /\ PollThrows(t)
    /\ UNCHANGED <<head, chainLogs, triggerOn, address, firstBest, emitCount,
                   eventCount>>
    /\ UNCHANGED nonPollVars

\* One iteration that runs through: the block is there, its events are pushed.
\* After the last iteration the cursor is written and returnData returned.
LoopProcess(t) ==
    /\ tick[t].pc = "loop"
    /\ LET blockNum == tick[t].blockNum
           returnData == tick[t].returnData
                           \o BlockEvents(triggerOn, blockNum, tick[t].best, address)
           calls == (IF NeedsBlockFetch(t) THEN 1 ELSE 0)
                      + (IF triggerOn \in VetCategories THEN 1 ELSE 0)
       IN IF blockNum < tick[t].best
          THEN /\ tick' = [tick EXCEPT ![t].blockNum = blockNum + 1,
                                       ![t].returnData = returnData,
                                       ![t].fetches = tick[t].fetches + calls,
                                       ![t].visited = tick[t].visited \cup {blockNum}]
               /\ UNCHANGED <<lastBlockNumber, lastTick, emitCount, eventCount>>
          ELSE /\ lastBlockNumber' = Some(CursorAfterCatchUp(t))
               /\ EndTick(t, "catchup", tick[t].best, returnData,
                          tick[t].fetches + calls, tick[t].visited \cup {blockNum})
               /\ emitCount' = CountRange(emitCount, tick[t].visited \cup {blockNum})
               /\ eventCount' = CountEvents(eventCount, returnData)
    /\ UNCHANGED <<head, chainLogs, triggerOn, address, firstBest>>
    /\ UNCHANGED nonPollVars

\* One step of the poll() invocation t.
Poll(t) ==
    \/ PollStart(t)
    \/ BestThrows(t)
    \/ BestNull(t)
    \/ BestFirstRun(t)
    \/ BestNoNewBlocks(t)
    \/ BestCatchUp(t)
    \/ LoopBlockThrows(t)
    \/ LoopBlockNull(t)
    \/ LoopLogsThrow(t)
    \/ LoopProcess(t)

\* The host runs one poll() at a time.
SerialTickers == {1}

\* --- two poll() invocations at a time
\* Highest block number the chain grows to under overlapping ticks.
MaxOverlapHead == 2

\* One category that reads no logs and one that does; which one does not
\* matter to the cursor and to the ranges.
OverlapInit == PollInit /\ triggerOn \in {"newBlock", "vetSent"}

\* The chain grows by one block without transfers.
OverlapMine ==
    /\ head < MaxOverlapHead
    /\ MineBlock
    /\ chainLogs' = Append(chainLogs, << >>)

\* ================================================================ send model
\* --------------------------------------------------------------- bounds
\* Most clauses a multi-clause transaction of the model carries.
MaxClauses == 2

\* Operations that go through the helper sendTransaction of the transaction
\* resource, and operations of the vet resource that build and send inline.
HelperOps == {"sendVet", "sendVtho", "multiClause"}
InlineOps == {"vetTransfer", "vetMultiTransfer"}
SendOps == HelperOps \cup InlineOps

\* params.useDelegation is the node parameter useDelegation (transaction
\* resource) or useFeeDelegation (vet resource).
ParamChoices ==
    [useDelegation : BOOLEAN, gasLimit : {0, 50000}, clauseCount : 0..MaxClauses]

CredentialChoices ==
    [privateKeyOk : BOOLEAN,
     enableDelegation : BOOLEAN,
     delegatorUrl : {"", "https://delegator"},
     delegatorPrivateKey : {"", "0xsponsorkey"}]

\* gasUsed a simulated clause may report.
GasUsedChoices == {21000, 36001}

NoParams == [useDelegation |-> FALSE, gasLimit |-> 0, clauseCount |-> 1]
NoCredentials == [privateKeyOk |-> TRUE, enableDelegation |-> FALSE,
                  delegatorUrl |-> "", delegatorPrivateKey |-> ""]
NoOutcome == [status |-> "none", failedStep |-> "none", message |-> ""]

\* Number of clauses of the transaction an operation builds.
ClauseCount(op, p) ==
    IF op \in {"multiClause", "vetMultiTransfer"} THEN p.clauseCount ELSE 1

\* sendTransaction is handed `useDelegation ? credentials : undefined` and tests
\* delegationCredentials?.enableDelegation.
DelegationEnabled(p, c) == p.useDelegation /\ c.enableDelegation

\* ... && delegationCredentials?.delegatorUrl: the delegation service is asked.
UsesDelegator(p, c) == DelegationEnabled(p, c) /\ c.delegatorUrl # ""

\* A multi-clause send that would fetch the best block before it estimates gas.
PlanBestBlockFirst(op, p, c) ==
    IF op \in HelperOps
    THEN <<"wallet", "getBestBlock">>
         \o (IF op = "multiClause" /\ p.gasLimit = 0 THEN <<"estimateGas">> ELSE << >>)
         \o <<"sign">>
         \o (IF UsesDelegator(p, c) THEN <<"requestDelegation">> ELSE << >>)
         \o <<"sendTransaction">>
    ELSE <<"getBestBlock", "sign", "sendTransaction">>

\* The awaited and signing steps of an operation, in program order.
Plan(op, p, c) ==
    IF op \in HelperOps
    THEN (IF op = "multiClause" /\ p.gasLimit = 0 THEN <<"estimateGas">> ELSE << >>)
         \o <<"wallet", "getBestBlock", "sign">>
         \o (IF UsesDelegator(p, c) THEN <<"requestDelegation">> ELSE << >>)
         \o <<"sendTransaction">>
    ELSE <<"getBestBlock", "sign", "sendTransaction">>

\* Math.ceil(total * 1.2)
GasWithMargin(total) == (total * 12 + 9) \div 10

\* The gas field of the body.
GasLimit(op, p, est) ==
    CASE op = "sendVet" -> IF p.gasLimit # 0 THEN p.gasLimit ELSE 21000
      [] op = "sendVtho" -> IF p.gasLimit # 0 THEN p.gasLimit ELSE 60000
      [] op = "multiClause" ->
            IF p.gasLimit # 0 THEN p.gasLimit ELSE GasWithMargin(SeqSum(est))
      [] op = "vetTransfer" -> IF p.gasLimit # 0 THEN p.gasLimit ELSE 21000
      [] op = "vetMultiTransfer" ->
            IF p.gasLimit # 0 THEN p.gasLimit
            ELSE 21000 + (ClauseCount(op, p) - 1) * 9000

\* reserved.features of the body: 1 when the body carries reserved = {features: 1},
\* 0 when it carries no reserved field.
Features(op, p, c) ==
    IF op \in HelperOps
    THEN IF DelegationEnabled(p, c) THEN 1 ELSE 0
    ELSE IF p.useDelegation THEN 1 ELSE 0

\* The transaction body as it stands when new Transaction(txBody) is made.
BuildBody(op, p, c, est) ==
    [clauses |-> ClauseCount(op, p),
     gas |-> GasLimit(op, p, est),
     features |-> Features(op, p, c)]

\* tx.signingHash(): a digest of the whole body, different bodies give
\* different digests.
SigningHash(body) == [digestOf |-> body]

\* The sender's signature over a digest.
SenderSignature(hash) == [signer |-> "sender", digest |-> hash]

\* The signature a delegation service answers with.
RemoteSponsorSignature(hash) ==
    [signer |-> "sponsor", digest |-> hash, made |-> "remote"]

CurrentStep ==
    IF step \in 1..Len(Plan(operation, params, credentials))
    THEN Plan(operation, params, credentials)[step]
    ELSE "none"

SendIdle ==
    /\ operation = "none"
    /\ params = NoParams
    /\ credentials = NoCredentials
    /\ step = 0
    /\ pending = "none"
    /\ callLog = << >>
    /\ estimates = << >>
    /\ txBody = None
    /\ signingHash = None
    /\ txSignature = << >>
    /\ sent = << >>
    /\ delegationRequests = 0
    /\ delegationReply = "none"
    /\ outcome = NoOutcome

LogStart(name) == [step |-> name, at |-> "start"]
LogEnd(name) == [step |-> name, at |-> "end"]

\* The operation throws at step `name`: nothing after it runs.
Fail(name, message) ==
    /\ step' = 0
    /\ pending' = "none"
    /\ outcome' = [status |-> "error", failedStep |-> name, message |-> message]

\* multiTransfer: if (recipientList.length === 0) throw, before anything else.
NoRecipients(op, p) == op = "vetMultiTransfer" /\ p.clauseCount = 0

\* execute() calls the operation for one item.
SendStart ==
    /\ step = 0
    /\ \E op \in SendOps, p \in ParamChoices, c \in CredentialChoices :
          /\ (op \notin {"multiClause", "vetMultiTransfer"} => p.clauseCount = 1)
          /\ operation' = op
          /\ params' = p
          /\ credentials' = c
          /\ step' = IF NoRecipients(op, p) THEN 0 ELSE 1
          /\ outcome' = IF NoRecipients(op, p)
                        THEN [status |-> "error", failedStep |-> "recipients",
                              message |-> "At least one recipient is required"]
                        ELSE NoOutcome
    /\ pending' = "none"
    /\ callLog' = << >>
    /\ estimates' = << >>
    /\ txBody' = None
    /\ signingHash' = None
    /\ txSignature' = << >>
    /\ sent' = << >>
    /\ delegationRequests' = 0
    /\ delegationReply' = "none"
    /\ UNCHANGED nonSendVars

\* await client.estimateGas(clauses) is issued.
EstimateGasCall ==
    /\ CurrentStep = "estimateGas"
    /\ pending = "none"
    /\ pending' = "estimateGas"
    /\ callLog' = Append(callLog, LogStart("estimateGas"))
    /\ UNCHANGED <<operation, params, credentials, step, estimates, txBody,
                   signingHash, txSignature, sent, delegationRequests,
                   delegationReply, outcome>>
    /\ UNCHANGED nonSendVars

\* The simulation answers with one gasUsed per clause.
EstimateGasReturns ==
    /\ pending = "estimateGas"
    /\ \E est \in [1..ClauseCount(operation, params) -> GasUsedChoices] :
          estimates' = est
    /\ pending' = "none"
    /\ step' = step + 1
    /\ callLog' = Append(callLog, LogEnd("estimateGas"))
    /\ UNCHANGED <<operation, params, credentials, txBody, signingHash,
                   txSignature, sent, delegationRequests, delegationReply, outcome>>
    /\ UNCHANGED nonSendVars

EstimateGasThrows ==
    /\ pending = "estimateGas"
    /\ Fail("estimateGas", "request failed")
    /\ callLog' = Append(callLog, LogEnd("estimateGas"))
    /\ UNCHANGED <<operation, params, credentials, estimates, txBody, signingHash,
                   txSignature, sent, delegationRequests, delegationReply>>
    /\ UNCHANGED nonSendVars

\* new ethers.Wallet(privateKey) at the head of sendTransaction.
WalletOk ==
    /\ CurrentStep = "wallet"
    /\ credentials.privateKeyOk
    /\ step' = step + 1
    /\ UNCHANGED <<operation, params, credentials, pending, callLog, estimates,
                   txBody, signingHash, txSignature, sent, delegationRequests,
                   delegationReply, outcome>>
    /\ UNCHANGED nonSendVars

WalletThrows ==
    /\ CurrentStep = "wallet"
    /\ ~credentials.privateKeyOk
    /\ Fail("wallet", "invalid private key")
    /\ UNCHANGED <<operation, params, credentials, callLog, estimates, txBody,
                   signingHash, txSignature, sent, delegationRequests,
                   delegationReply>>
    /\ UNCHANGED nonSendVars

\* await client.getBestBlock() / client.getBlock('best') is issued.
GetBestBlockCall ==
    /\ CurrentStep = "getBestBlock"
    /\ pending = "none"
    /\ pending' = "getBestBlock"
    /\ callLog' = Append(callLog, LogStart("getBestBlock"))
    /\ UNCHANGED <<operation, params, credentials, step, estimates, txBody,
                   signingHash, txSignature, sent, delegationRequests,
                   delegationReply, outcome>>
    /\ UNCHANGED nonSendVars

GetBestBlockReturns ==
    /\ pending = "getBestBlock"
    /\ pending' = "none"
    /\ step' = step + 1
    /\ callLog' = Append(callLog, LogEnd("getBestBlock"))
    /\ UNCHANGED <<operation, params, credentials, estimates, txBody, signingHash,
                   txSignature, sent, delegationRequests, delegationReply, outcome>>
    /\ UNCHANGED nonSendVars

GetBestBlockThrows ==
    /\ pending = "getBestBlock"
    /\ Fail("getBestBlock", "request failed")
    /\ callLog' = Append(callLog, LogEnd("getBestBlock"))
    /\ UNCHANGED <<operation, params, credentials, estimates, txBody, signingHash,
                   txSignature, sent, delegationRequests, delegationReply>>
    /\ UNCHANGED nonSendVars

\* The body is built (with reserved.features when delegation applies), the
\* Transaction made of it, its signing hash taken and signed with the sender's key.
SignOk ==
    /\ CurrentStep = "sign"
    /\ operation \in InlineOps => credentials.privateKeyOk
    /\ LET body == BuildBody(operation, params, credentials, estimates)
       IN /\ txBody' = Some(body)
          /\ signingHash' = Some(SigningHash(body))
          /\ txSignature' = << SenderSignature(SigningHash(body)) >>
    /\ step' = step + 1
    /\ callLog' = callLog \o << LogStart("sign"), LogEnd("sign") >>
    /\ UNCHANGED <<operation, params, credentials, pending, estimates, sent,
                   delegationRequests, delegationReply, outcome>>
    /\ UNCHANGED nonSendVars

\* secp256k1.sign rejects the key (vet resource; the helper has failed earlier,
\* at new ethers.Wallet).
SignThrows ==
    /\ CurrentStep = "sign"
    /\ operation \in InlineOps
    /\ ~credentials.privateKeyOk
    /\ Fail("sign", "invalid private key")
    /\ callLog' = callLog \o << LogStart("sign"), LogEnd("sign") >>
    /\ UNCHANGED <<operation, params, credentials, estimates, txBody, signingHash,
                   txSignature, sent, delegationRequests, delegationReply>>
    /\ UNCHANGED nonSendVars

\* await delegationService.requestDelegation(raw, origin): POST /delegate.
RequestDelegationCall ==
    /\ CurrentStep = "requestDelegation"
    /\ pending = "none"
    /\ pending' = "requestDelegation"
    /\ delegationRequests' = delegationRequests + 1
    /\ callLog' = Append(callLog, LogStart("requestDelegation"))
    /\ UNCHANGED <<operation, params, credentials, step, estimates, txBody,
                   signingHash, txSignature, sent, delegationReply, outcome>>
    /\ UNCHANGED nonSendVars

\* The service answers {signature}: tx.signature = sender's || sponsor's.
DelegationSigns ==
    /\ pending = "requestDelegation"
    /\ delegationReply' = "signature"
    /\ txSignature' = Append(txSignature, RemoteSponsorSignature(signingHash[1]))
    /\ pending' = "none"
    /\ step' = step + 1
    /\ callLog' = Append(callLog, LogEnd("requestDelegation"))
    /\ UNCHANGED <<operation, params, credentials, estimates, txBody, signingHash,
                   sent, delegationRequests, outcome>>
    /\ UNCHANGED nonSendVars

\* A send that would go on with the sender's signature alone after the service
\* refused.
DelegationRefusalIgnored ==
    /\ pending = "requestDelegation"
    /\ \E reply \in {"errorBody", "httpError"} : delegationReply' = reply
    /\ pending' = "none"
    /\ step' = step + 1
    /\ callLog' = Append(callLog, LogEnd("requestDelegation"))
    /\ UNCHANGED <<operation, params, credentials, estimates, txBody, signingHash,
                   txSignature, sent, delegationRequests, outcome>>
    /\ UNCHANGED nonSendVars

\* The service answers {error: "..."} or with an HTTP error, which
\* requestDelegation turns into {signature: '', error}: sendTransaction throws
\* `Fee delegation failed: ...`.
DelegationRefuses ==
    /\ pending = "requestDelegation"
    /\ \E reply \in {"errorBody", "httpError"} : delegationReply' = reply
    /\ Fail("requestDelegation", "Fee delegation failed")
    /\ callLog' = Append(callLog, LogEnd("requestDelegation"))
    /\ UNCHANGED <<operation, params, credentials, estimates, txBody, signingHash,
                   txSignature, sent, delegationRequests>>
    /\ UNCHANGED nonSendVars

\* No response at all (requestDelegation rethrows), or a 200 answer carrying
\* neither error nor a usable signature (ethers.getBytes throws).
DelegationBreaks ==
    /\ pending = "requestDelegation"
    /\ \E reply \in {"noResponse", "malformed"} :
          /\ delegationReply' = reply
          /\ Fail("requestDelegation",
                  IF reply = "noResponse" THEN "request failed" ELSE "invalid signature")
    /\ callLog' = Append(callLog, LogEnd("requestDelegation"))
    /\ UNCHANGED <<operation, params, credentials, estimates, txBody, signingHash,
                   txSignature, sent, delegationRequests>>
    /\ UNCHANGED nonSendVars

\* await client.sendTransaction(encoded): POST /transactions.
SendTransactionCall ==
    /\ CurrentStep = "sendTransaction"
    /\ pending = "none"
    /\ pending' = "sendTransaction"
    /\ sent' = Append(sent, [body |-> txBody[1], signature |-> txSignature])
    /\ callLog' = Append(callLog, LogStart("sendTransaction"))
    /\ UNCHANGED <<operation, params, credentials, step, estimates, txBody,
                   signingHash, txSignature, delegationRequests, delegationReply,
                   outcome>>
    /\ UNCHANGED nonSendVars

\* The node accepts the transaction: the operation returns success.
SendTransactionReturns ==
    /\ pending = "sendTransaction"
    /\ pending' = "none"
    /\ step' = 0
    /\ outcome' = [status |-> "success", failedStep |-> "none", message |-> ""]
    /\ callLog' = Append(callLog, LogEnd("sendTransaction"))
    /\ UNCHANGED <<operation, params, credentials, estimates, txBody, signingHash,
                   txSignature, sent, delegationRequests, delegationReply>>
    /\ UNCHANGED nonSendVars

\* A send that would submit the same transaction again after a failed submission.
SendTransactionRetried ==
    /\ pending = "sendTransaction"
    /\ Len(sent) < 2
    /\ sent' = Append(sent, [body |-> txBody[1], signature |-> txSignature])
    /\ callLog' = callLog \o << LogEnd("sendTransaction"), LogStart("sendTransaction") >>
    /\ UNCHANGED <<operation, params, credentials, step, pending, estimates, txBody,
                   signingHash, txSignature, delegationRequests, delegationReply,
                   outcome>>
    /\ UNCHANGED nonSendVars

\* The submission fails: the error propagates, nothing is tried again.
SendTransactionThrows ==
    /\ pending = "sendTransaction"
    /\ Fail("sendTransaction", "request failed")
    /\ callLog' = Append(callLog, LogEnd("sendTransaction"))
    /\ UNCHANGED <<operation, params, credentials, estimates, txBody, signingHash,
                   txSignature, sent, delegationRequests, delegationReply>>
    /\ UNCHANGED nonSendVars

\* One step of the execution of a send operation.
Send ==
    \/ SendStart
    \/ EstimateGasCall
    \/ EstimateGasReturns
    \/ EstimateGasThrows
    \/ WalletOk
    \/ WalletThrows
    \/ GetBestBlockCall
    \/ GetBestBlockReturns
    \/ GetBestBlockThrows
    \/ SignOk
    \/ SignThrows
    \/ RequestDelegationCall
    \/ DelegationSigns
    \/ DelegationRefuses
    \/ DelegationBreaks
    \/ SendTransactionCall
    \/ SendTransactionReturns
    \/ SendTransactionThrows

\* The trigger left alone: no tick runs, the chain stands still.
PollQuiet ==
    /\ head = 0
    /\ chainLogs = << >>
    /\ triggerOn = "newBlock"
    /\ address = "0xAA"
    /\ lastBlockNumber = None
    /\ tick = [t \in Tickers |-> IdleTick]
    /\ lastTick = NoTick
    /\ firstBest = None
    /\ emitCount = [b \in Blocks |-> 0]
    /\ eventCount = [id \in EventIds |-> 0]

\* ==================================================== large transactions
\* --------------------------------------------------------------- bounds
\* Largest whole number of VET in a transfer amount or a threshold.
MaxUnits == 2
\* Most transfers client.getTransfers answers for one block.
MaxTransfers == 2

\* A wei amount units * 10^18 + offset, |offset| far below 10^18: the amounts
\* at, one wei below and one wei above a whole number of VET.
Wei(units, offset) == [units |-> units, offset |-> offset]

\* a < b on BigInt amounts.
WeiLess(a, b) ==
    \/ a.units < b.units
    \/ a.units = b.units /\ a.offset < b.offset

\* threshold is a JavaScript number; the model carries it in tenths.
IsIntegral(tenths) == tenths % 10 = 0

\* BigInt(threshold) * BigInt(10 ** 18), defined for an integral threshold
\* (BigInt of a fractional number throws a RangeError).
ThresholdWei(tenths) == Wei(tenths \div 10, 0)

ThresholdChoices == { t \in 0..(10 * MaxUnits) : t % 5 = 0 }
MonitorChoices == {"", "0xAA", "0xbb"}
LargeTransferChoices ==
    { [sender |-> a[1], recipient |-> a[2], amount |-> Wei(u, o)] :
        a \in {<<"0xaa", "0xcc">>, <<"0xcc", "0xBB">>, <<"0xcc", "0xdd">>},
        u \in 1..MaxUnits, o \in {-1, 0, 1} }

RECURSIVE SeqsUpTo(_, _)
\* The sequences over S of length at most n.
SeqsUpTo(S, n) ==
    IF n = 0 THEN { << >> }
    ELSE LET shorter == SeqsUpTo(S, n - 1)
         IN shorter \cup { Append(q, x) : q \in { r \in shorter : Len(r) = n - 1 }, x \in S }

NoLargeResult == [status |-> "none", events |-> << >>]

\* The loop of processLargeTransactions over transfers[i..]: a transfer below
\* the threshold or not touching the monitored address is passed over.
RECURSIVE LargeEvents(_, _, _, _)
LargeEvents(list, i, thresholdWei, monitor) ==
    IF i > Len(list) THEN << >>
    ELSE LET transfer == list[i]
             rest == LargeEvents(list, i + 1, thresholdWei, monitor)
         IN IF WeiLess(transfer.amount, thresholdWei) THEN rest
            ELSE IF /\ monitor # ""
                    /\ ToLowerCase(transfer.sender) # ToLowerCase(monitor)
                    /\ ToLowerCase(transfer.recipient) # ToLowerCase(monitor)
                 THEN rest
                 ELSE << [from |-> transfer.sender, to |-> transfer.recipient,
                          amount |-> transfer.amount, txId |-> i] >> \o rest

LargeInit ==
    /\ threshold \in ThresholdChoices
    /\ monitorAddress \in MonitorChoices
    /\ blockTransfers \in SeqsUpTo(LargeTransferChoices, MaxTransfers)
    /\ largeResult = NoLargeResult

\* The trigger is not in largeTransaction mode.
LargeIdle ==
    /\ threshold = 0
    /\ monitorAddress = ""
    /\ blockTransfers = << >>
    /\ largeResult = NoLargeResult

\* processLargeTransactions runs to its end.
ProcessLargeTransactions ==
    /\ largeResult.status = "none"
    /\ IsIntegral(threshold)
    /\ largeResult' = [status |-> "done",
                       events |-> LargeEvents(blockTransfers, 1, ThresholdWei(threshold),
                                              monitorAddress)]
    /\ UNCHANGED <<threshold, monitorAddress, blockTransfers>>
    /\ UNCHANGED nonLargeVars

\* BigInt(threshold) throws: nothing is fetched, nothing pushed.
ProcessLargeThrows ==
    /\ largeResult.status = "none"
    /\ ~IsIntegral(threshold)
    /\ largeResult' = [status |-> "threw", events |-> << >>]
    /\ UNCHANGED <<threshold, monitorAddress, blockTransfers>>
    /\ UNCHANGED nonLargeVars

\* ========================================================= block finality
\* --------------------------------------------------------------- bounds
\* Highest best-block number of a tick in blockFinalized mode.
MaxBest == 14

NoFinalityTick ==
    [last |-> 0, best |-> 0, blockNum |-> 1, events |-> << >>, processed |-> {}]

\* A catch-up tick enters its loop: cursor `last`, best block `best` > last.
FinalityInit ==
    \E last \in 0..(MaxBest - 1) :
        \E best \in (last + 1)..MaxBest :
            finalityTick = [last |-> last, best |-> best, blockNum |-> last + 1,
                            events |-> << >>, processed |-> {}]

\* The trigger is not in blockFinalized mode.
FinalityIdle == finalityTick = NoFinalityTick

\* One turn of the loop on a block that was fetched (or is the best block).
FinalityProcess ==
    /\ finalityTick.blockNum <= finalityTick.best
    /\ finalityTick' =
          [finalityTick EXCEPT
              !.events = @ \o BlockEvents("blockFinalized", finalityTick.blockNum,
                                          finalityTick.best, ""),
              !.processed = @ \cup {finalityTick.blockNum},
              !.blockNum = @ + 1]
    /\ UNCHANGED nonFinalityVars

\* One turn of the loop on a block the node answered null for: continue.
FinalitySkip ==
    /\ finalityTick.blockNum < finalityTick.best
    /\ finalityTick' = [finalityTick EXCEPT !.blockNum = @ + 1]
    /\ UNCHANGED nonFinalityVars

\* ================================================================ execute
\* --------------------------------------------------------------- bounds
\* Most input items of one execute().
MaxItems == 4

NoExecResult == [status |-> "running", output |-> None]

ExecInit ==
    /\ items \in SeqsUpTo({"returns", "throws"}, MaxItems)
    /\ continueOnFail \in BOOLEAN
    /\ itemIndex = 0
    /\ execReturnData = << >>
    /\ executed = {}
    /\ execResult = NoExecResult

\* The action node is not executed.
ExecIdle ==
    /\ items = << >>
    /\ continueOnFail = FALSE
    /\ itemIndex = 0
    /\ execReturnData = << >>
    /\ executed = {}
    /\ execResult = NoExecResult

\* The loop is at item i, which is still to be executed.
AtItem ==
    /\ execResult.status = "running"
    /\ itemIndex < Len(items)

\* The operation of item i returns: its result is pushed, paired with i.
ExecItemReturns ==
    /\ AtItem
    /\ items[itemIndex + 1] = "returns"
    /\ execReturnData' = Append(execReturnData, [error |-> FALSE, pairedItem |-> itemIndex])
    /\ executed' = executed \cup {itemIndex}
    /\ itemIndex' = itemIndex + 1
    /\ UNCHANGED <<items, continueOnFail, execResult>>
    /\ UNCHANGED nonExecVars

\* An operation throws and continueOnFail() is true, but no record is pushed.
ExecItemFailsUnrecorded ==
    /\ AtItem
    /\ items[itemIndex + 1] = "throws"
    /\ continueOnFail
    /\ executed' = executed \cup {itemIndex}
    /\ itemIndex' = itemIndex + 1
    /\ UNCHANGED <<items, continueOnFail, execReturnData, execResult>>
    /\ UNCHANGED nonExecVars

\* The operation of item i throws and continueOnFail() is true: an error record
\* is pushed, paired with i, and the loop goes on.
ExecItemFailsContinue ==
    /\ AtItem
    /\ items[itemIndex + 1] = "throws"
    /\ continueOnFail
    /\ execReturnData' = Append(execReturnData, [error |-> TRUE, pairedItem |-> itemIndex])
    /\ executed' = executed \cup {itemIndex}
    /\ itemIndex' = itemIndex + 1
    /\ UNCHANGED <<items, continueOnFail, execResult>>
    /\ UNCHANGED nonExecVars

\* The operation of item i throws and continueOnFail() is false: the error is
\* thrown out of execute.
ExecItemFailsAbort ==
    /\ AtItem
    /\ items[itemIndex + 1] = "throws"
    /\ ~continueOnFail
    /\ executed' = executed \cup {itemIndex}
    /\ execResult' = [status |-> "threw", output |-> None]
    /\ UNCHANGED <<items, continueOnFail, itemIndex, execReturnData>>
    /\ UNCHANGED nonExecVars

\* The loop is over: return [returnData].
ExecReturn ==
    /\ execResult.status = "running"
    /\ itemIndex >= Len(items)
    /\ execResult' = [status |-> "returned", output |-> Some(execReturnData)]
    /\ UNCHANGED <<items, continueOnFail, itemIndex, execReturnData, executed>>
    /\ UNCHANGED nonExecVars

\* ================================================================ lookups
\* --------------------------------------------------------------- bounds
\* Number of transaction ids looked up.
MaxTxIds == 3

LookupOps == {"getTransaction", "getReceipt"}

\* HTTP status of the node's answer; 0 stands for no response at all
\* (error.response undefined).
StatusChoices == {0, 200, 400, 404, 429, 500, 503}

\* A 200 answer carries the entity or the JSON value null.
NodeAnswerChoices ==
    { [status |-> st, data |-> d] :
        st \in StatusChoices, d \in {"entity", "null"} } \
    { [status |-> st, data |-> "entity"] : st \in StatusChoices \ {200} }

Pending == [kind |-> "pending"]

\* A client that would turn every HTTP error answer into null.
AnyErrorIsAbsent(answer) ==
    IF answer.status = 200
    THEN [kind |-> "value", value |-> IF answer.data = "null" THEN None ELSE Some("entity")]
    ELSE IF answer.status # 0
         THEN [kind |-> "value", value |-> None]
         ELSE [kind |-> "throw", error |-> answer]

\* ThorClient.getTransaction / getTransactionReceipt: response.data on success,
\* null when error.response?.status === 404, the error rethrown otherwise.
ClientLookup(answer) ==
    IF answer.status = 200
    THEN [kind |-> "value", value |-> IF answer.data = "null" THEN None ELSE Some("entity")]
    ELSE IF answer.status = 404
         THEN [kind |-> "value", value |-> None]
         ELSE [kind |-> "throw", error |-> answer]

\* The getTransaction / getReceipt operation on what the client gave.
OperationResult(txId, got) ==
    IF got.kind = "throw"
    THEN [kind |-> "throw", error |-> got.error]
    ELSE IF got.value = None
         THEN [kind |-> "result", found |-> FALSE, txId |-> txId]
         ELSE [kind |-> "result", found |-> TRUE, txId |-> txId]

LookupInit ==
    /\ lookupOp \in LookupOps
    /\ lookupTxId \in 1..MaxTxIds
    /\ nodeAnswer \in NodeAnswerChoices
    /\ clientResult = Pending
    /\ lookupResult = Pending

\* No lookup is made.
LookupIdle ==
    /\ lookupOp = "getTransaction"
    /\ lookupTxId = 1
    /\ nodeAnswer = [status |-> 200, data |-> "null"]
    /\ clientResult = Pending
    /\ lookupResult = Pending

\* await client.getTransaction(txId) / client.getTransactionReceipt(txId)
LookupClientCall ==
    /\ clientResult = Pending
    /\ clientResult' = ClientLookup(nodeAnswer)
    /\ UNCHANGED <<lookupOp, lookupTxId, nodeAnswer, lookupResult>>
    /\ UNCHANGED nonLookupVars

\* The operation returns its result, or the client's error leaves it.
LookupOperationEnds ==
    /\ clientResult # Pending
    /\ lookupResult = Pending
    /\ lookupResult' = OperationResult(lookupTxId, clientResult)
    /\ UNCHANGED <<lookupOp, lookupTxId, nodeAnswer, clientResult>>
    /\ UNCHANGED nonLookupVars

\* ========================================================== ClauseBuilder
\* --------------------------------------------------------------- bounds
\* Most clauses one builder of the model holds.
MaxBuilderClauses == 3

\* Strings are sequences of one-character strings.
DecChars == {"0", "1", "2", "3", "4", "5", "6", "7", "8", "9"}
HexChars == DecChars \cup {"a", "b", "c", "d", "e", "f", "A", "B", "C", "D", "E", "F"}

\* The character ch repeated n times.
Repeat(ch, n) == [i \in 1..n |-> ch]

\* /^0x[a-fA-F0-9]{40}$/.test(address)
IsValidAddress(str) ==
    /\ Len(str) = 42
    /\ str[1] = "0"
    /\ str[2] = "x"
    /\ \A i \in 3..42 : str[i] \in HexChars

\* data.startsWith('0x')
StartsWith0x(str) == Len(str) >= 2 /\ str[1] = "0" /\ str[2] = "x"

\* BigInt(str) does not throw: the empty string (0n), 0x followed by hex digits,
\* or decimal digits with an optional sign.
BigIntParses(str) ==
    IF str = << >> THEN TRUE
    ELSE IF StartsWith0x(str)
         THEN Len(str) >= 3 /\ \A i \in 3..Len(str) : str[i] \in HexChars
         ELSE LET digits == IF str[1] \in {"-", "+"} THEN Tail(str) ELSE str
              IN /\ digits # << >>
                 /\ \A i \in 1..Len(digits) : digits[i] \in DecChars

\* Address strings: a well-formed one, one a digit short, one with a character
\* that is no hex digit, one without 0x.
WellFormed == <<"0", "x", "A", "b">> \o Repeat("3", 38)
TooShort == <<"0", "x">> \o Repeat("a", 39)
NotHex == <<"0", "x", "g">> \o Repeat("a", 39)
NoPrefix == Repeat("a", 42)
AddressChoices == { WellFormed, TooShort, NotHex, NoPrefix }

\* What the callers of the model pass as recipient of a VET transfer, as token
\* contract and as `to` of a raw clause.
VetRecipients == { WellFormed, TooShort, NotHex }
TokenContracts == { WellFormed, TooShort }
RawRecipients == { None, Some(NoPrefix) }

\* Value strings: 50, -5, 5.5, the empty string, 0xa.
ValueChoices ==
    { <<"5", "0">>, <<"-", "5">>, <<"5", ".", "5">>, << >>, <<"0", "x", "a">> }
VetAmounts == { <<"5", "0">>, <<"-", "5">> }
RawValues == { <<"5", ".", "5">>, << >>, <<"0", "x", "a">> }

\* Data strings: 0xab, ab.
DataChoices == { <<"0", "x", "a", "b">>, <<"a", "b">> }

\* What getClauses keeps of a clause.
ClauseOf(c) == [to |-> c.to, value |-> c.value, data |-> c.data]

\* iface.encodeFunctionData('transfer', [to, amount]) does not throw: ethers
\* takes a well-formed address (of correct checksum when in mixed case, as
\* WellFormed stands for) and a numeric amount.
EncodesTransfer(to, amount) == IsValidAddress(to) /\ BigIntParses(amount) /\ amount # << >>

\* The call data of transfer(to, amount), standing for the ABI encoding.
TransferData == <<"0", "x", "a", "9">>

NoCall == [op |-> "none", result |-> None]

BuilderInit ==
    /\ clauses = << >>
    /\ added = << >>
    /\ lastCall = NoCall

\* A builder that would put a new clause in front of the earlier ones.
PushFront(list, c) == << c >> \o list

\* this.clauses.push(c)
Push(list, c) == Append(list, c)

\* addVetTransfer(to, amount)
AddVetTransfer ==
    /\ Len(clauses) < MaxBuilderClauses
    /\ \E to \in VetRecipients, amount \in VetAmounts :
          LET c == [to |-> Some(to), value |-> amount, data |-> <<"0", "x">>,
                    gasEstimate |-> 21000]
          IN /\ clauses' = Push(clauses, c)
             /\ added' = Append(added, ClauseOf(c))
    /\ lastCall' = [op |-> "addVetTransfer", result |-> None]
    /\ UNCHANGED nonBuilderVars

\* addTokenTransfer(tokenAddress, to, amount), the encoding succeeds.
AddTokenTransfer ==
    /\ Len(clauses) < MaxBuilderClauses
    /\ \E tokenAddress \in TokenContracts, to \in AddressChoices, amount \in ValueChoices :
          /\ EncodesTransfer(to, amount)
          /\ LET c == [to |-> Some(tokenAddress), value |-> <<"0">>,
                       data |-> TransferData, gasEstimate |-> 60000]
             IN /\ clauses' = Push(clauses, c)
                /\ added' = Append(added, ClauseOf(c))
    /\ lastCall' = [op |-> "addTokenTransfer", result |-> None]
    /\ UNCHANGED nonBuilderVars

\* addTokenTransfer(tokenAddress, to, amount), encodeFunctionData throws: no
\* clause is pushed.
AddTokenTransferThrows ==
    /\ Len(clauses) < MaxBuilderClauses
    /\ \E to \in AddressChoices, amount \in ValueChoices : ~EncodesTransfer(to, amount)
    /\ lastCall' = [op |-> "addTokenTransfer", result |-> Some("threw")]
    /\ UNCHANGED <<clauses, added>>
    /\ UNCHANGED nonBuilderVars

\* addRawClause(to, value, data), to a string or null.
AddRawClause ==
    /\ Len(clauses) < MaxBuilderClauses
    /\ \E to \in RawRecipients, value \in RawValues, data \in DataChoices :
          LET c == [to |-> to, value |-> value, data |-> data, gasEstimate |-> 0]
          IN /\ clauses' = Push(clauses, c)
             /\ added' = Append(added, ClauseOf(c))
    /\ lastCall' = [op |-> "addRawClause", result |-> None]
    /\ UNCHANGED nonBuilderVars

\* this.clauses.map(({ to, value, data }) => ({ to, value, data }))
GetClausesOf(list) == [i \in 1..Len(list) |-> ClauseOf(list[i])]

\* getClauses()
GetClauses ==
    /\ lastCall' = [op |-> "getClauses", result |-> Some(GetClausesOf(clauses))]
    /\ UNCHANGED <<clauses, added>>
    /\ UNCHANGED nonBuilderVars

\* The violations validate() pushes for clause i (0-based), in the order of its
\* checks: to, value, data.
ClauseErrors(c, i) ==
    (IF c.to # None /\ ~IsValidAddress(c.to[1])
     THEN << [clause |-> i, check |-> "to"] >> ELSE << >>)
    \o (IF ~BigIntParses(c.value)
        THEN << [clause |-> i, check |-> "value"] >> ELSE << >>)
    \o (IF ~StartsWith0x(c.data)
        THEN << [clause |-> i, check |-> "data"] >> ELSE << >>)

RECURSIVE AllClauseErrors(_, _)
AllClauseErrors(list, i) ==
    IF i >= Len(list) THEN << >>
    ELSE ClauseErrors(list[i + 1], i) \o AllClauseErrors(list, i + 1)

\* A validate() that would stop at the first clause with a violation.
ValidateFailFast(list) ==
    LET errors ==
          (IF Len(list) = 0 THEN << [clause |-> -1, check |-> "noClauses"] >> ELSE << >>)
          \o (IF \E i \in 1..Len(list) : ClauseErrors(list[i], i - 1) # << >>
              THEN LET first == CHOOSE i \in 1..Len(list) :
                                   /\ ClauseErrors(list[i], i - 1) # << >>
                                   /\ \A j \in 1..(i - 1) : ClauseErrors(list[j], j - 1) = << >>
                   IN ClauseErrors(list[first], first - 1)
              ELSE << >>)
    IN [valid |-> Len(errors) = 0, errors |-> errors]

\* validate(): { valid: errors.length === 0, errors }
Validate(list) ==
    LET errors ==
          (IF Len(list) = 0 THEN << [clause |-> -1, check |-> "noClauses"] >> ELSE << >>)
          \o AllClauseErrors(list, 0)
    IN [valid |-> Len(errors) = 0, errors |-> errors]

\* validate()
ValidateCall ==
    /\ lastCall' = [op |-> "validate", result |-> Some(Validate(clauses))]
    /\ UNCHANGED <<clauses, added>>
    /\ UNCHANGED nonBuilderVars


\* ============================================================ unit converter
\* Decimal strings are sequences of one-character strings; a bigint is such a
\* sequence of digits without leading zeros, <<"0">> for zero.  Every unit
\* multiplier is a power of ten, so the products, quotients and remainders of
\* convertUnits are computed on the digits.

\* --------------------------------------------------------------- bounds
\* Longest run of zeros the generated amounts carry on either side.
MaxZeros == 2

\* UNIT_MULTIPLIERS, each multiplier given by its exponent of ten.
UNIT_MULTIPLIERS ==
    [wei |-> 0, kwei |-> 3, mwei |-> 6, gwei |-> 9, microvet |-> 12,
     millivet |-> 15, vet |-> 18, vtho |-> 18, ether |-> 18]

RECURSIVE StripLeadingZeros(_)
StripLeadingZeros(ds) ==
    IF Len(ds) > 1 /\ Head(ds) = "0" THEN StripLeadingZeros(Tail(ds)) ELSE ds

\* BigInt(string) of a string of decimal digits; BigInt("") is 0n.
BigInt(ds) == IF ds = << >> THEN <<"0">> ELSE StripLeadingZeros(ds)

\* b * 10^k, b / 10^k (truncating) and b % 10^k on bigints.
MulPow10(b, k) == IF b = <<"0">> THEN b ELSE b \o Repeat("0", k)

DivPow10(b, k) == IF Len(b) <= k THEN <<"0">> ELSE SubSeq(b, 1, Len(b) - k)

ModPow10(b, k) == IF Len(b) <= k THEN b ELSE BigInt(SubSeq(b, Len(b) - k + 1, Len(b)))

\* String.prototype.includes for one character.
Includes(str, ch) == \E i \in 1..Len(str) : str[i] = ch

\* str.split('.') : the pieces between the dots.
RECURSIVE Split(_)
Split(str) ==
    IF ~Includes(str, ".") THEN <<str>>
    ELSE LET i == CHOOSE j \in 1..Len(str) :
                      str[j] = "." /\ \A k \in 1..(j - 1) : str[k] # "."
         IN <<SubSeq(str, 1, i - 1)>> \o Split(SubSeq(str, i + 1, Len(str)))

\* String.prototype.padStart
PadStart(str, n, ch) == IF Len(str) >= n THEN str ELSE Repeat(ch, n - Len(str)) \o str

\* str.replace(/0+$/, '')
RECURSIVE TrimTrailingZeros(_)
TrimTrailingZeros(str) ==
    IF str # << >> /\ str[Len(str)] = "0"
    THEN TrimTrailingZeros(SubSeq(str, 1, Len(str) - 1))
    ELSE str

\* Variant of ValueInWei: the division by 10^decimals is done before the
\* multiplication by the unit multiplier.
ValueInWeiDivideFirst(value, fromExp) ==
    IF Includes(value, ".")
    THEN LET whole == Split(value)[1]
             decimal == Split(value)[2]
         IN MulPow10(DivPow10(BigInt(whole \o decimal), Len(decimal)), fromExp)
    ELSE MulPow10(BigInt(value), fromExp)

\* "Convert to wei first".  10 ** decimals is an exact double up to 10^22;
\* the amounts of the model have fewer fractional digits than that.
ValueInWei(value, fromExp) ==
    IF Includes(value, ".")
    THEN LET whole == Split(value)[1]
             decimal == Split(value)[2]
             decimals == Len(decimal)
             combined == whole \o decimal
         IN DivPow10(MulPow10(BigInt(combined), fromExp), decimals)
    ELSE MulPow10(BigInt(value), fromExp)

\* Variant of DecimalStr: the trailing zeros are kept.
DecimalStrUntrimmed(decimalPart) == PadStart(decimalPart, 18, "0")

\* decimalPart.toString().padStart(decimalPlaces, '0').replace(/0+$/, '')
DecimalStr(decimalPart) == TrimTrailingZeros(PadStart(decimalPart, 18, "0"))

Returned(v) == [status |-> "returned", value |-> v]
Threw(msg) == [status |-> "threw", value |-> msg]

convertUnits(value, fromUnit, toUnit) ==
    LET normalizedFrom == ToLowerCase(fromUnit)
        normalizedTo == ToLowerCase(toUnit)
    IN IF normalizedFrom \notin DOMAIN UNIT_MULTIPLIERS THEN Threw("Unknown unit")
       ELSE IF normalizedTo \notin DOMAIN UNIT_MULTIPLIERS THEN Threw("Unknown unit")
       ELSE
         LET fromExp == UNIT_MULTIPLIERS[normalizedFrom]
             toExp == UNIT_MULTIPLIERS[normalizedTo]
             valueInWei == ValueInWei(value, fromExp)
             result == DivPow10(valueInWei, toExp)
             remainder == ModPow10(valueInWei, toExp)
             decimalPart == DivPow10(MulPow10(remainder, 18), toExp)
             decimalStr == DecimalStr(decimalPart)
         IN IF remainder = <<"0">> THEN Returned(result)
            ELSE IF decimalStr = << >> THEN Returned(result)
            ELSE Returned(result \o <<".">> \o decimalStr)

weiToVet(wei) == convertUnits(wei, "wei", "vet")
vetToWei(vet) == convertUnits(vet, "vet", "wei")
weiToVtho(wei) == convertUnits(wei, "wei", "vtho")
vthoToWei(vtho) == convertUnits(vtho, "vtho", "wei")

\* --- inputs
\* Non-negative integers, as their decimal digits.
IntegerChoices ==
    {<<"0">>}
    \cup {<<d>> \o Repeat("0", k) : d \in {"1", "7"}, k \in 0..MaxZeros}
    \cup {p \o Repeat("0", k) : p \in {<<"5">>, <<"1", "2">>}, k \in {17, 18}}
    \cup {<<"0", "7">>}

\* Digits after the decimal point: at most 18, and one run of 19.
FractionChoices ==
    {Repeat("0", k) \o <<"5">> \o Repeat("0", j) : k \in 0..MaxZeros, j \in 0..1}
    \cup {Repeat("0", 17) \o <<"1">>, Repeat("0", 18) \o <<"1">>, << >>}

WholeChoices == {<<"0">>, <<"1">>, <<"1", "0", "0">>, << >>}

ValueInputs ==
    IntegerChoices
    \cup {w \o <<".">> \o f : w \in WholeChoices, f \in FractionChoices}

UnitChoices == {"wei", "gwei", "vet", "vtho", "VET", "finney"}

NoConversion == [value |-> << >>, fromUnit |-> "", toUnit |-> "", result |-> None,
                 back |-> None]

ConvertIdle == conversion = NoConversion

\* convertUnits(value, fromUnit, toUnit)
ConvertCall ==
    /\ conversion = NoConversion
    /\ \E value \in ValueInputs, fromUnit \in UnitChoices, toUnit \in UnitChoices :
         conversion' = [value |-> value, fromUnit |-> fromUnit, toUnit |-> toUnit,
                        result |-> Some(convertUnits(value, fromUnit, toUnit)),
                        back |-> None]
    /\ UNCHANGED nonConvertVars

\* convertUnits(result, toUnit, fromUnit) on the string the first call returned
ConvertBack ==
    /\ conversion.result # None
    /\ conversion.result[1].status = "returned"
    /\ conversion.back = None
    /\ conversion' = [conversion EXCEPT
         !.back = Some(convertUnits(conversion.result[1].value,
                                    conversion.toUnit, conversion.fromUnit))]
    /\ UNCHANGED nonConvertVars


\* ========================================================= energy calculator

\* --------------------------------------------------------------- bounds
\* The VET amounts are the multiples of 25,000,000 up to MaxAmountSteps of them.
MaxAmountSteps == 4
\* Longest duration, in tenths of a second.
MaxSecondsTenths == 16

AmountChoices == {i * 25000000 : i \in 0..MaxAmountSteps}

\* The parameter seconds is a number; the model carries it in tenths.
SecondsChoices == 0..MaxSecondsTenths

\* Math.floor(seconds * 5)
FloorSecondsTimes5(secondsTenths) == (secondsTenths * 5) \div 10

\* Variant of calculateVthoGenerated: the quotient is rounded up.
calculateVthoGeneratedRoundUp(vetAmount, secondsTenths) ==
    (vetAmount * FloorSecondsTimes5(secondsTenths) + 999999999) \div 1000000000

\* (vetBigInt * BigInt(Math.floor(seconds * 5))) / BigInt(1e9)
calculateVthoGenerated(vetAmount, secondsTenths) ==
    (vetAmount * FloorSecondsTimes5(secondsTenths)) \div 1000000000

NoEnergy == [vetAmount |-> 0, seconds |-> 0, generated |-> None, doubled |-> None]

EnergyIdle == energy = NoEnergy

\* calculateVthoGenerated(v, s)
CalculateVtho ==
    /\ energy = NoEnergy
    /\ \E v \in AmountChoices, s \in SecondsChoices :
         energy' = [vetAmount |-> v, seconds |-> s,
                    generated |-> Some(calculateVthoGenerated(v, s)),
                    doubled |-> None]
    /\ UNCHANGED nonEnergyVars

\* calculateVthoGenerated(2v, s)
CalculateVthoDoubled ==
    /\ energy.generated # None
    /\ energy.doubled = None
    /\ energy' = [energy EXCEPT
         !.doubled = Some(calculateVthoGenerated(2 * energy.vetAmount, energy.seconds))]
    /\ UNCHANGED nonEnergyVars


\* ================================================ the trigger over many ticks
\* The trigger in blockFinalized or largeTransaction mode on a chain that grows
\* to MaxBest, the host running one poll() at a time and every chain call
\* answering: a tick is then one step, taken at the moment its best block is
\* fetched.

FeedModes == {"blockFinalized", "largeTransaction"}

NoFeed == [mode |-> "none", threshold |-> 0, head |-> 0, cursor |-> None,
           activatedAt |-> None, finalized |-> {}, failed |-> FALSE]

\* The workflow is not active in one of these modes.
FeedIdle == feed = NoFeed

\* The workflow is activated on a chain of any length; the threshold is a
\* parameter of the largeTransaction mode.
FeedInit ==
    \E h \in 0..MaxBest, mode \in FeedModes :
        \E th \in IF mode = "largeTransaction" THEN ThresholdChoices ELSE {0} :
            feed = [NoFeed EXCEPT !.mode = mode, !.threshold = th, !.head = h]

\* The chain grows by one block.
FeedMine ==
    /\ feed.head < MaxBest
    /\ feed' = [feed EXCEPT !.head = @ + 1]
    /\ UNCHANGED nonFeedVars

\* First run: the cursor is set to best.number, nothing is emitted.
FeedFirstRun ==
    /\ feed.cursor = None
    /\ feed' = [feed EXCEPT !.cursor = Some(feed.head),
                            !.activatedAt = Some(feed.head)]
    /\ UNCHANGED nonFeedVars

\* The blockFinalized events of the loop over lastBlockNumber + 1 .. best, in
\* order.
RECURSIVE FeedEvents(_, _)
FeedEvents(blockNum, best) ==
    IF blockNum > best THEN << >>
    ELSE BlockEvents("blockFinalized", blockNum, best, "")
            \o FeedEvents(blockNum + 1, best)

\* Whether the handler of the mode runs to its end on a block when the chain
\* calls answer: processLargeTransactions converts the threshold with BigInt
\* before anything else.
HandlerReturns == feed.mode = "largeTransaction" => IsIntegral(feed.threshold)

\* A catch-up tick: the loop runs over the new blocks, the cursor is written.
FeedCatchUp ==
    /\ feed.cursor # None
    /\ feed.head > feed.cursor[1]
    /\ HandlerReturns
    /\ LET returnData == IF feed.mode = "blockFinalized"
                         THEN FeedEvents(feed.cursor[1] + 1, feed.head)
                         ELSE << >>
       IN feed' = [feed EXCEPT
             !.cursor = Some(feed.head),
             !.failed = FALSE,
             !.finalized = @ \cup {returnData[i].blockNumber :
                                      i \in 1..Len(returnData)}]
    /\ UNCHANGED nonFeedVars

\* A catch-up tick whose handler throws on the first block of the range:
\* poll() throws and the cursor is not written.
FeedCatchUpThrows ==
    /\ feed.cursor # None
    /\ feed.head > feed.cursor[1]
    /\ ~HandlerReturns
    /\ feed' = [feed EXCEPT !.failed = TRUE]
    /\ UNCHANGED nonFeedVars

\* ================================================= token and NFT transfers
\* --------------------------------------------------------------- bounds
\* Most event logs one block of the model holds.
MaxLogs == 2

\* keccak256("Transfer(address,address,uint256)"), shared by VIP-180 and VIP-181.
TransferTopic == "0xddf252ad"
\* keccak256("Approval(address,address,uint256)"): some other event.
ApprovalTopic == "0x8c5be1e5"

\* 32-byte topics that carry an address, as the node gives them.
AddressTopics == {"0x000000000000000000000000aa", "0x000000000000000000000000bb"}

\* '0x' + topic.slice(26)
TopicAddress(topic) ==
    CASE topic = "0x000000000000000000000000aa" -> "0xaa"
      [] topic = "0x000000000000000000000000bb" -> "0xbb"
      [] OTHER -> "0x"

\* The topic lists of the logs: topic0 alone, a two-topic log, the three
\* topics of a VIP-180 Transfer/Approval, the four of a VIP-181 one (indexed
\* tokenId).
TopicChoices ==
    LET withAddresses == {<<t0, a, b>> : t0 \in {TransferTopic, ApprovalTopic},
                                        a \in AddressTopics, b \in AddressTopics}
    IN {<<TransferTopic>>, <<TransferTopic, "0x000000000000000000000000aa">>}
       \cup withAddresses
       \cup {tp \o <<"0x07">> : tp \in withAddresses}

ContractChoices == {"0xT1", "0xN1"}

\* An event log without its position in the block.
LogChoices ==
    [address : ContractChoices, topics : TopicChoices, data : {"0x64"}]

\* The logs of one block; meta.txID is the position of the log.
BlockEventLogs ==
    {[i \in 1..Len(ls) |-> [address |-> ls[i].address, topics |-> ls[i].topics,
                            data |-> ls[i].data, meta |-> [txID |-> i]]] :
        ls \in SeqsUpTo(LogChoices, MaxLogs)}

\* POST /logs/event as the node answers it: the logs of the block that match
\* the criteria, in block order.
RECURSIVE GetEvents(_, _)
GetEvents(logs, criteria) ==
    IF logs = << >> THEN << >>
    ELSE LET log == Head(logs)
             matches == /\ log.topics[1] = criteria.topic0
                        /\ criteria.address # None => log.address = criteria.address[1]
         IN (IF matches THEN <<log>> ELSE << >>) \o GetEvents(Tail(logs), criteria)

\* The criteria both handlers build: topic0, and the contract when one is set.
TransferCriteria(contract) ==
    [topic0 |-> TransferTopic,
     address |-> IF contract # "" THEN Some(contract) ELSE None]

\* The loop of a handler over the events, skipping those with fewer than
\* minTopics topics.
RECURSIVE TransferEvents(_, _, _)
TransferEvents(events, addr, minTopics) ==
    IF events = << >> THEN << >>
    ELSE LET event == Head(events)
             rest == TransferEvents(Tail(events), addr, minTopics)
         IN IF Len(event.topics) < minTopics THEN rest
            ELSE LET from == TopicAddress(event.topics[2])
                     to == TopicAddress(event.topics[3])
                     addressLower == ToLowerCase(addr)
                     isReceived == ToLowerCase(to) = addressLower
                     isSent == ToLowerCase(from) = addressLower
                 IN IF isReceived \/ isSent
                    THEN << [type |-> IF isReceived THEN "received" ELSE "sent",
                             contract |-> event.address,
                             from |-> from,
                             to |-> to,
                             txId |-> event.meta.txID] >> \o rest
                    ELSE rest

\* The events processTokenTransfers pushes for a block.
TokenTransferEvents(logs, addr, tokenContract) ==
    TransferEvents(GetEvents(logs, TransferCriteria(tokenContract)), addr, 3)

\* The events processNftTransfers pushes for a block.
NftTransferEvents(logs, addr, nftContract) ==
    TransferEvents(GetEvents(logs, TransferCriteria(nftContract)), addr, 4)

NoTokenScan == [mode |-> "none", address |-> "", contract |-> "",
                blockLogs |-> << >>, result |-> None]

TokenScanIdle == tokenScan = NoTokenScan

\* A block and the node parameters address and tokenContract / nftContract.
TokenScanInit ==
    \E logs \in BlockEventLogs, contract \in {"", "0xT1"} :
        tokenScan = [mode |-> "none", address |-> "0xAA", contract |-> contract,
                     blockLogs |-> logs, result |-> None]

\* processTokenTransfers(client, block, context, returnData)
ProcessTokenTransfers ==
    /\ tokenScan.result = None
    /\ tokenScan' = [tokenScan EXCEPT
          !.mode = "tokenTransfer",
          !.result = Some(TokenTransferEvents(tokenScan.blockLogs, tokenScan.address,
                                              tokenScan.contract))]
    /\ UNCHANGED nonTokenScanVars

\* processNftTransfers(client, block, context, returnData)
ProcessNftTransfers ==
    /\ tokenScan.result = None
    /\ tokenScan' = [tokenScan EXCEPT
          !.mode = "nftTransfer",
          !.result = Some(NftTransferEvents(tokenScan.blockLogs, tokenScan.address,
                                            tokenScan.contract))]
    /\ UNCHANGED nonTokenScanVars


\* ================================================================ chain tags

\* NETWORKS of constants/networks.ts, the chainTag of each entry.
NETWORKS ==
    [mainnet |-> [chainTag |-> 74],    \* 0x4a
     testnet |-> [chainTag |-> 39],    \* 0x27
     solo |-> [chainTag |-> 246]]      \* 0xf6

\* The network options of the vechainNetwork credentials.
NetworkChoices == {"mainnet", "testnet", "solo", "custom"}

\* getChainTag of constants/networks.ts: throws for a network without entry.
getChainTag(network) ==
    IF network \notin DOMAIN NETWORKS THEN Threw("Unknown network")
    ELSE Returned(NETWORKS[network].chainTag)

\* The chainTag field the ThorClient constructor sets; ThorClient.getChainTag
\* returns it.
ThorClientChainTag(network) ==
    IF network = "custom" THEN Returned(0) ELSE getChainTag(network)

\* The function getChainTag local to vet.operations.ts, repeated in the vtho,
\* contract, vip181 and utility operations.
LocalGetChainTag(network) ==
    CASE network = "mainnet" -> 74
      [] network = "testnet" -> 39
      [] network = "solo" -> 246
      [] OTHER -> 74

\* The resources with a local getChainTag.
TagResources == {"vet", "vtho", "contract", "vip181", "utility"}

NoChainTags == [network |-> "none", clientTag |-> None,
                localTag |-> [r \in TagResources |-> None]]

ChainTagIdle == chainTags = NoChainTags

\* The credentials select a network.
ChainTagInit ==
    \E network \in NetworkChoices :
        chainTags = [NoChainTags EXCEPT !.network = network]

\* The transaction resource builds a body: createThorClient(network, customUrl)
\* and client.getChainTag().
CreateThorClient ==
    /\ chainTags.clientTag = None
    /\ chainTags' = [chainTags EXCEPT
          !.clientTag = Some(ThorClientChainTag(chainTags.network))]
    /\ UNCHANGED nonChainTagVars

\* Another resource builds a body: chainTag: getChainTag(network).
ResourceGetChainTag ==
    /\ \E r \in TagResources :
          /\ chainTags.localTag[r] = None
          /\ chainTags' = [chainTags EXCEPT
                !.localTag[r] = Some(LocalGetChainTag(chainTags.network))]
    /\ UNCHANGED nonChainTagVars

\* ======================================================== the specifications

\* The trigger alone: the action node is not executed.
Init == PollInit /\ SendIdle /\ LargeIdle /\ FinalityIdle /\ ExecIdle /\ LookupIdle /\ BuilderInit /\ ChainTagIdle /\ TokenScanIdle /\ FeedIdle /\ EnergyIdle /\ ConvertIdle

Next ==
    \/ MineBlock
    \/ \E t \in SerialTickers : Poll(t)

Spec == Init /\ [][Next]_vars

\* The action node alone: send operations executed one after the other.
SendInit == PollQuiet /\ SendIdle /\ LargeIdle /\ FinalityIdle /\ ExecIdle /\ LookupIdle /\ BuilderInit /\ ChainTagIdle /\ TokenScanIdle /\ FeedIdle /\ EnergyIdle /\ ConvertIdle

SendNext == Send

SendSpec == SendInit /\ [][SendNext]_vars

\* processLargeTransactions alone, on every block content and parameter value.
LargeStart == PollQuiet /\ SendIdle /\ LargeInit /\ FinalityIdle /\ ExecIdle /\ LookupIdle /\ BuilderInit /\ ChainTagIdle /\ TokenScanIdle /\ FeedIdle /\ EnergyIdle /\ ConvertIdle

LargeNext ==
    \/ ProcessLargeTransactions
    \/ ProcessLargeThrows

LargeSpec == LargeStart /\ [][LargeNext]_vars

\* The loop of a blockFinalized tick alone, for every cursor and best block.
FinalityStart == PollQuiet /\ SendIdle /\ LargeIdle /\ FinalityInit /\ ExecIdle /\ LookupIdle /\ BuilderInit /\ ChainTagIdle /\ TokenScanIdle /\ FeedIdle /\ EnergyIdle /\ ConvertIdle

FinalityNext ==
    \/ FinalityProcess
    \/ FinalitySkip

FinalitySpec == FinalityStart /\ [][FinalityNext]_vars

\* Vechain.execute alone, on every batch of items.
ExecStart == PollQuiet /\ SendIdle /\ LargeIdle /\ FinalityIdle /\ ExecInit /\ LookupIdle /\ BuilderInit /\ ChainTagIdle /\ TokenScanIdle /\ FeedIdle /\ EnergyIdle /\ ConvertIdle

ExecNext ==
    \/ ExecItemReturns
    \/ ExecItemFailsContinue
    \/ ExecItemFailsAbort
    \/ ExecReturn

ExecSpec == ExecStart /\ [][ExecNext]_vars

\* One lookup operation alone, on every answer of the node.
LookupStart ==
    PollQuiet /\ SendIdle /\ LargeIdle /\ FinalityIdle /\ ExecIdle /\ LookupInit
    /\ BuilderInit /\ ChainTagIdle /\ TokenScanIdle /\ FeedIdle /\ EnergyIdle /\ ConvertIdle

LookupNext ==
    \/ LookupClientCall
    \/ LookupOperationEnds

LookupSpec == LookupStart /\ [][LookupNext]_vars

\* One ClauseBuilder alone, under every sequence of its methods.
BuilderStart ==
    PollQuiet /\ SendIdle /\ LargeIdle /\ FinalityIdle /\ ExecIdle /\ LookupIdle
    /\ BuilderInit /\ ChainTagIdle /\ TokenScanIdle /\ FeedIdle /\ EnergyIdle /\ ConvertIdle

BuilderNext ==
    \/ AddVetTransfer
    \/ AddTokenTransfer
    \/ AddTokenTransferThrows
    \/ AddRawClause
    \/ GetClauses
    \/ ValidateCall

BuilderSpec == BuilderStart /\ [][BuilderNext]_vars


\* convertUnits alone, on every amount and pair of units.
ConvertStart ==
    PollQuiet /\ SendIdle /\ LargeIdle /\ FinalityIdle /\ ExecIdle /\ LookupIdle
    /\ BuilderInit /\ ChainTagIdle /\ TokenScanIdle /\ FeedIdle /\ EnergyIdle /\ ConvertIdle

ConvertNext ==
    \/ ConvertCall
    \/ ConvertBack

ConvertSpec == ConvertStart /\ [][ConvertNext]_vars


\* calculateVthoGenerated alone, on every amount and duration.
EnergyStart ==
    PollQuiet /\ SendIdle /\ LargeIdle /\ FinalityIdle /\ ExecIdle /\ LookupIdle
    /\ BuilderInit /\ ChainTagIdle /\ TokenScanIdle /\ FeedIdle /\ ConvertIdle /\ EnergyIdle

EnergyNext ==
    \/ CalculateVtho
    \/ CalculateVthoDoubled

EnergySpec == EnergyStart /\ [][EnergyNext]_vars


\* The trigger alone over many succeeding ticks.  A tick that finds no new
\* block changes nothing and is a stuttering step.
FeedStart ==
    PollQuiet /\ SendIdle /\ LargeIdle /\ FinalityIdle /\ ExecIdle /\ LookupIdle
    /\ BuilderInit /\ ChainTagIdle /\ TokenScanIdle /\ ConvertIdle /\ EnergyIdle /\ FeedInit

FeedNext ==
    \/ FeedMine
    \/ FeedFirstRun
    \/ FeedCatchUp
    \/ FeedCatchUpThrows

FeedSpec == FeedStart /\ [][FeedNext]_vars

\* The same with the chain that keeps growing and the host that keeps polling.
FeedFairSpec ==
    /\ FeedSpec
    /\ WF_vars(FeedMine)
    /\ WF_vars(FeedFirstRun)
    /\ WF_vars(FeedCatchUp)
    /\ WF_vars(FeedCatchUpThrows)


\* processTokenTransfers and processNftTransfers alone, on every block content.
TokenScanStart ==
    PollQuiet /\ SendIdle /\ LargeIdle /\ FinalityIdle /\ ExecIdle /\ LookupIdle
    /\ BuilderInit /\ ChainTagIdle /\ ConvertIdle /\ EnergyIdle /\ FeedIdle /\ TokenScanInit

TokenScanNext ==
    \/ ProcessTokenTransfers
    \/ ProcessNftTransfers

TokenScanSpec == TokenScanStart /\ [][TokenScanNext]_vars


\* The trigger with two poll() invocations interleaving at their awaits.
OverlapStart ==
    OverlapInit /\ SendIdle /\ LargeIdle /\ FinalityIdle /\ ExecIdle /\ LookupIdle
    /\ BuilderInit /\ ChainTagIdle /\ ConvertIdle /\ EnergyIdle /\ FeedIdle /\ TokenScanIdle

OverlapNext ==
    \/ OverlapMine
    \/ \E t \in Tickers : Poll(t)

OverlapSpec == OverlapStart /\ [][OverlapNext]_vars


\* The chain tags alone: the resources build bodies in any order.
ChainTagStart ==
    PollQuiet /\ SendIdle /\ LargeIdle /\ FinalityIdle /\ ExecIdle /\ LookupIdle
    /\ BuilderInit /\ ConvertIdle /\ EnergyIdle /\ FeedIdle /\ TokenScanIdle
    /\ ChainTagInit

ChainTagNext ==
    \/ CreateThorClient
    \/ ResourceGetChainTag

ChainTagSpec == ChainTagStart /\ [][ChainTagNext]_vars

\* ============================================================ poll: claims

\* A catch-up tick failed inside its loop.
FailedMidRange == lastTick.kind = "failed" /\ lastTick.phase = "loop"

\* C1: a chain-client call failing during a catch-up tick leaves the persisted
\* cursor at the value it had before the tick and emits nothing; the next tick
\* reads that old cursor and goes over the range again from old cursor + 1,
\* leaving out no block number.
C1_FailedTickKeepsCursor ==
    FailedMidRange =>
        /\ lastTick.events = << >>
        /\ lastBlockNumber = lastTick.from
        /\ \A t \in SerialTickers :
              /\ tick[t].pc # "idle" => tick[t].last = lastTick.from
              /\ tick[t].pc = "loop" =>
                    /\ tick[t].visited = (lastTick.from[1] + 1)..(tick[t].blockNum - 1)
                    /\ tick[t].blockNum <= tick[t].best

\* C1 witness: a tick failed after it had gone over at least one block, and the
\* next tick is in its loop again, past the first block of the same range.
C1_Witness ==
    /\ FailedMidRange
    /\ lastTick.range # {}
    /\ tick[1].pc = "loop"
    /\ tick[1].visited # {}
    /\ tick[1].last = lastTick.from

\* C2: under serialized ticks no block number is in the range of more than one
\* successful tick, and no derived event is emitted more than once, whatever
\* ticks failed in between.
C2_ExactlyOnce ==
    /\ \A b \in Blocks : emitCount[b] <= 1
    /\ \A id \in EventIds : eventCount[id] <= 1

\* C2 witness: a second successful catch-up tick has emitted events of later
\* blocks, after a first one had emitted an event of an earlier block.
C2_Witness ==
    /\ lastTick.kind = "catchup"
    /\ lastTick.events # << >>
    /\ lastTick.from # None
    /\ \E b \in Blocks :
          /\ b <= lastTick.from[1]
          /\ emitCount[b] = 1
          /\ \E i \in {0, 1, 2} : eventCount[<<b, i>>] = 1

\* C3: the first run (no cursor) emits nothing and sets the cursor to the best
\* block number of that tick, and no later tick ever emits that block; a tick
\* that finds best.number <= cursor emits nothing, leaves the cursor as it was
\* and makes no per-block call.
C3_FirstRunAndIdle ==
    /\ lastTick.kind = "first" =>
          /\ lastTick.events = << >>
          /\ lastTick.fetches = 0
          /\ lastBlockNumber = Some(lastTick.best)
    /\ firstBest # None =>
          /\ emitCount[firstBest[1]] = 0
          /\ \A i \in {0, 1, 2} : eventCount[<<firstBest[1], i>>] = 0
    /\ lastTick.kind = "idle" =>
          /\ lastTick.events = << >>
          /\ lastTick.fetches = 0
          /\ lastTick.range = {}
          /\ lastBlockNumber = lastTick.from
          /\ lastTick.best <= lastTick.from[1]

\* C3 witness: the first run saw a head above the genesis block, later ticks
\* emitted later blocks, and the last tick found nothing new.
C3_Witness ==
    /\ firstBest # None
    /\ firstBest[1] >= 1
    /\ lastTick.kind = "idle"
    /\ \E b \in Blocks : b > firstBest[1] /\ emitCount[b] = 1

\* The criteria of the vetReceived / vetSent categories, stated on a log.
MatchesCriteria(log) ==
    \/ triggerOn = "vetReceived" /\ ToLowerCase(log.recipient) = ToLowerCase(address)
    \/ triggerOn = "vetSent" /\ ToLowerCase(log.sender) = ToLowerCase(address)

\* The logs of the blocks from + 1 .. best that match the criteria.
MatchingLogs(from, best) ==
    { id \in EventIds :
        /\ id[1] > from /\ id[1] <= best
        /\ id[1] \in 1..Len(chainLogs)
        /\ id[2] \in 1..Len(chainLogs[id[1]])
        /\ MatchesCriteria(chainLogs[id[1]][id[2]]) }

\* C4: a successful catch-up tick emits exactly one event per log of the new
\* blocks that matches the criteria, and sets the cursor to the best.number it
\* fetched, also when it derived no event.
C4_CatchUpResult ==
    lastTick.kind = "catchup" =>
        /\ lastBlockNumber = Some(lastTick.best)
        /\ triggerOn \in VetCategories =>
              /\ Len(lastTick.events) =
                    Cardinality(MatchingLogs(lastTick.from[1], lastTick.best))
              /\ \A id \in MatchingLogs(lastTick.from[1], lastTick.best) :
                    Cardinality({i \in 1..Len(lastTick.events) :
                                    lastTick.events[i].txId = id}) = 1

\* ============================================================ send: claims

\* C5: whenever a send operation is invoked with fee delegation requested, the
\* body that is signed has bit 0 of reserved.features set before the digest is
\* taken, the sender signs the digest of that body, and the body that is
\* submitted is the body that was signed.
C5_DelegationFlagBeforeDigest ==
    (params.useDelegation /\ signingHash # None) =>
        /\ txBody[1].features = 1
        /\ signingHash[1] = SigningHash(txBody[1])
        /\ txSignature[1] = SenderSignature(signingHash[1])
        /\ \A i \in 1..Len(sent) : sent[i].body = txBody[1]

\* The signature field is the sender's signature followed by the sponsor's.
SenderThenSponsor(sig) ==
    /\ Len(sig) = 2
    /\ sig[1].signer = "sender"
    /\ sig[2].signer = "sponsor"

\* C6: every submitted transaction has the delegation feature bit set in its body
\* if and only if its signature is the sender's followed by the sponsor's; a body
\* without the bit carries the sender's signature alone.
C6_SignatureMatchesFeatureBit ==
    \A i \in 1..Len(sent) :
        /\ sent[i].body.features = 1 <=> SenderThenSponsor(sent[i].signature)
        /\ sent[i].body.features = 0 =>
              /\ Len(sent[i].signature) = 1
              /\ sent[i].signature[1].signer = "sender"

\* C7: when the delegation service answers with an error (an error string in the
\* body or an HTTP error response), the operation fails with a fee-delegation
\* failure and client.sendTransaction is never called for the transaction.
C7_DelegationErrorStopsSend ==
    delegationReply \in {"errorBody", "httpError"} =>
        /\ sent = << >>
        /\ step = 0
        /\ pending = "none"
        /\ outcome.status = "error"
        /\ outcome.failedStep = "requestDelegation"
        /\ outcome.message = "Fee delegation failed"

\* C7 witness: the service was asked once for a signed delegation-enabled body
\* and answered with an HTTP error response.
C7_Witness ==
    /\ delegationReply = "httpError"
    /\ delegationRequests = 1
    /\ signingHash # None
    /\ txBody[1].features = 1
    /\ outcome.status = "error"

\* C8: client.sendTransaction is called exactly once when the operation returns
\* success, not at all when an earlier step fails, and exactly once when the
\* submission itself fails (it is not tried again).
C8_SubmitOnceOrNever ==
    /\ Len(sent) <= 1
    /\ outcome.status = "success" => Len(sent) = 1
    /\ (outcome.status = "error" /\ outcome.failedStep # "sendTransaction") =>
          sent = << >>
    /\ (outcome.status = "error" /\ outcome.failedStep = "sendTransaction") =>
          /\ Len(sent) = 1
          /\ step = 0
          /\ pending = "none"

\* C8 witness: a submission failed after every earlier step had succeeded, the
\* delegation call included.
C8_Witness ==
    /\ outcome.status = "error"
    /\ outcome.failedStep = "sendTransaction"
    /\ delegationReply = "signature"
    /\ Len(sent) = 1

\* C9: when fee delegation is requested and a local sponsor private key is
\* configured, no request goes to a remote delegation service and the sponsor's
\* signature of a submitted transaction was made locally with that key.
C9_LocalSponsorKeySignsLocally ==
    (params.useDelegation /\ credentials.delegatorPrivateKey # "") =>
        /\ delegationRequests = 0
        /\ \A i \in 1..Len(sent) :
              /\ SenderThenSponsor(sent[i].signature)
              /\ sent[i].signature[2].made = "local"

\* The place of a step in the order the specification states ...
StatedRank(name) ==
    CASE name = "getBestBlock" -> 1
      [] name = "estimateGas" -> 2
      [] name = "sign" -> 3
      [] name = "requestDelegation" -> 4
      [] name = "sendTransaction" -> 5

\* ... and in the order of the code: gas is estimated first.
CodeRank(name) ==
    CASE name = "estimateGas" -> 1
      [] name = "getBestBlock" -> 2
      [] name = "sign" -> 3
      [] name = "requestDelegation" -> 4
      [] name = "sendTransaction" -> 5

\* No step starts before the one before it has ended: starts and ends alternate,
\* each end closing the start just before it.
StrictlySequential ==
    \A i \in 1..Len(callLog) :
        IF i % 2 = 1
        THEN callLog[i].at = "start"
        ELSE callLog[i].at = "end" /\ callLog[i].step = callLog[i - 1].step

\* The steps started so far follow the order given by Rank, none twice.
InOrder(Rank(_)) ==
    \A i, j \in 1..Len(callLog) :
        (i < j /\ callLog[i].at = "start" /\ callLog[j].at = "start") =>
            Rank(callLog[i].step) < Rank(callLog[j].step)

\* C10 as stated: within one multi-clause send the chain interactions happen in
\* the order best-block fetch, gas estimate, sign, optional delegation call,
\* submit, each after the one before it has completed.
C10_StatedStepOrder ==
    operation = "multiClause" => StrictlySequential /\ InOrder(StatedRank)

\* C10 as the code has it: within one multi-clause send the chain interactions
\* happen in the order gas estimate, best-block fetch, sign, optional delegation
\* call, submit, each after the one before it has completed.
C10_CodeStepOrder ==
    operation = "multiClause" => StrictlySequential /\ InOrder(CodeRank)

\* C10 witness: a multi-clause send went through all five steps and succeeded.
C10_Witness ==
    /\ operation = "multiClause"
    /\ outcome.status = "success"
    /\ Len(callLog) = 10
    /\ delegationReply = "signature"

\* The gas estimation was asked for the clause list of this send.
GasWasEstimated ==
    \E i \in 1..Len(callLog) : callLog[i] = LogEnd("estimateGas")

\* g is the ceiling of 1.2 times total.
IsCeilOfSixFifths(g, total) ==
    /\ 10 * g >= 12 * total
    /\ 10 * (g - 1) < 12 * total

\* C11: whenever the caller supplies no gas limit (gasLimit = 0), the gas limit
\* of the built body comes from running gas estimation on the clause list and is
\* the ceiling of 1.2 times the total estimated gas, for every operation that
\* builds a body.
C11_GasLimitByEstimation ==
    (operation \in HelperOps /\ params.gasLimit = 0 /\ txBody # None) =>
        /\ GasWasEstimated
        /\ IsCeilOfSixFifths(txBody[1].gas, SeqSum(estimates))

\* C12: every body whose gas limit was derived from the estimation (the caller
\* supplied none) has a gas limit of at least 20000 plus the sum of the estimated
\* per-clause gas, and has at least one clause.
C12_GasCoversBaseCost ==
    (operation = "multiClause" /\ params.gasLimit = 0 /\ txBody # None) =>
        /\ txBody[1].gas >= 20000 + SeqSum(estimates)
        /\ txBody[1].clauses >= 1

\* ==================================================== classification: claims

\* Transfer i of the block was pushed by processLargeTransactions.
LargeEmitted(i) ==
    \E k \in 1..Len(largeResult.events) : largeResult.events[k].txId = i

\* amount >= threshold * 10^18, the threshold in tenths of a VET.
AtOrAboveThreshold(amount, tenths) ==
    \/ 10 * amount.units > tenths
    \/ 10 * amount.units = tenths /\ amount.offset >= 0

\* The monitored address is the sender or the recipient, compared
\* case-insensitively.
TouchesMonitor(transfer) ==
    \/ ToLowerCase(transfer.sender) = ToLowerCase(monitorAddress)
    \/ ToLowerCase(transfer.recipient) = ToLowerCase(monitorAddress)

\* C13: in largeTransaction mode a transfer is emitted if and only if its amount
\* in wei is at or above threshold * 10^18 (exactly the threshold qualifies, one
\* wei below does not) and, when a monitor address is configured, that address
\* is the transfer's sender or recipient, compared case-insensitively.
C13_LargeClassification ==
    largeResult.status # "none" =>
        \A i \in 1..Len(blockTransfers) :
            LargeEmitted(i) <=>
                /\ AtOrAboveThreshold(blockTransfers[i].amount, threshold)
                /\ monitorAddress # "" => TouchesMonitor(blockTransfers[i])

\* Block b was emitted as finalized by the tick.
FinalizedEmitted(b) ==
    \E k \in 1..Len(finalityTick.events) :
        /\ finalityTick.events[k].blockNumber = b
        /\ finalityTick.events[k].finalized

\* C14: in blockFinalized mode a block processed during a tick is emitted as
\* finalized if and only if its number is at most best.number - 12, best being
\* that of the current tick: a block exactly 12 behind best is emitted, a block
\* 11 behind is not.
C14_FinalityBoundary ==
    /\ \A b \in finalityTick.processed :
          FinalizedEmitted(b) <=> b <= finalityTick.best - 12
    /\ \A k \in 1..Len(finalityTick.events) :
          /\ finalityTick.events[k].blockNumber \in finalityTick.processed
          /\ finalityTick.events[k].confirmations >= 12

\* C14 witness: the tick has processed the block exactly 12 behind best and
\* emitted it, and the block 11 behind best and not emitted it.
C14_Witness ==
    /\ finalityTick.best - 12 \in finalityTick.processed
    /\ finalityTick.best - 11 \in finalityTick.processed
    /\ FinalizedEmitted(finalityTick.best - 12)
    /\ ~FinalizedEmitted(finalityTick.best - 11)

\* ================================================================ execute: claims

\* The 0-based indices of the input items.
ItemIndices == 0..(Len(items) - 1)

\* The indices of the items whose operation throws.
Failing == { i \in ItemIndices : items[i + 1] = "throws" }

\* C15: with continue-on-fail, a failing item i gives an error record paired with
\* i and every other item is still executed, so the output holds one record per
\* input item in input order; without it, the first failing item aborts the
\* batch: no later item is executed and no result is returned.
C15_PerItemIsolation ==
    /\ (continueOnFail /\ execResult.status # "running") =>
          /\ execResult.status = "returned"
          /\ executed = ItemIndices
          /\ Len(execResult.output[1]) = Len(items)
          /\ \A k \in 1..Len(items) :
                /\ execResult.output[1][k].pairedItem = k - 1
                /\ execResult.output[1][k].error <=> (k - 1) \in Failing
    /\ (~continueOnFail /\ execResult.status # "running") =>
          IF Failing = {}
          THEN /\ execResult.status = "returned"
               /\ executed = ItemIndices
               /\ Len(execResult.output[1]) = Len(items)
          ELSE /\ execResult.status = "threw"
               /\ execResult.output = None
               /\ executed = { i \in ItemIndices : \A f \in Failing : i <= f }

\* C15 witness: with continue-on-fail a batch whose first item fails and whose
\* later items succeed has been executed to its end.
C15_Witness ==
    /\ continueOnFail
    /\ execResult.status = "returned"
    /\ Len(items) >= 3
    /\ Failing = {0}

\* ================================================================ lookups: claims

\* C16: getTransaction and getTransactionReceipt return null when the node
\* answers 404 and rethrow every other failure unchanged; the getTransaction and
\* getReceipt operations then return a result with found = false instead of
\* failing.
C16_NotFoundIsAbsent ==
    /\ (clientResult # Pending /\ nodeAnswer.status = 404) =>
          clientResult = [kind |-> "value", value |-> None]
    /\ (clientResult # Pending /\ nodeAnswer.status \notin {200, 404}) =>
          clientResult = [kind |-> "throw", error |-> nodeAnswer]
    /\ (lookupResult # Pending /\ nodeAnswer.status = 404) =>
          lookupResult = [kind |-> "result", found |-> FALSE, txId |-> lookupTxId]
    /\ (lookupResult # Pending /\ nodeAnswer.status \notin {200, 404}) =>
          lookupResult = [kind |-> "throw", error |-> nodeAnswer]

\* C16 witness: a receipt lookup answered 404 has ended with found = false.
C16_Witness ==
    /\ lookupOp = "getReceipt"
    /\ nodeAnswer.status = 404
    /\ lookupResult # Pending
    /\ lookupResult.kind = "result"
    /\ ~lookupResult.found

\* ========================================================== ClauseBuilder: claims

\* C17: after any sequence of add operations getClauses returns one clause per
\* add, in the order added; a builder filled by three addVetTransfer calls
\* returns three clauses, each with data "0x"; getClauses does not change the
\* builder.
C17_ClauseOrder ==
    /\ Len(clauses) = Len(added)
    /\ lastCall.op = "getClauses" =>
          /\ lastCall.result[1] = added
          /\ \A i \in 1..Len(clauses) :
                clauses[i].gasEstimate = 21000 => lastCall.result[1][i].data = <<"0", "x">>

\* C17 witness: getClauses was called on a builder filled by three
\* addVetTransfer calls with different recipients.
C17_Witness ==
    /\ lastCall.op = "getClauses"
    /\ Len(clauses) = 3
    /\ \A i \in 1..3 : clauses[i].gasEstimate = 21000
    /\ clauses[1].to # clauses[2].to
    /\ clauses[2].to # clauses[3].to

\* The checks of validate() on one clause.
Checks == {"to", "value", "data"}

\* Clause i (0-based) of the builder fails the named check.
FailsCheck(i, check) ==
    LET c == clauses[i + 1]
    IN CASE check = "to" -> c.to # None /\ ~IsValidAddress(c.to[1])
         [] check = "value" -> ~BigIntParses(c.value)
         [] check = "data" -> ~StartsWith0x(c.data)

\* How often the violation of clause i and the named check is in the list.
Reported(errors, i, check) ==
    Cardinality({ k \in 1..Len(errors) :
                    errors[k] = [clause |-> i, check |-> check] })

\* C18: on an empty builder validate() returns exactly one violation (no
\* clauses); on a non-empty builder it returns one violation for each failed
\* check of each clause, naming the clause's index, all of them and nothing
\* else; valid is true if and only if the list of violations is empty.
C18_ValidateAggregates ==
    lastCall.op = "validate" =>
        LET v == lastCall.result[1]
            failed == { x \in (0..(Len(clauses) - 1)) \X Checks : FailsCheck(x[1], x[2]) }
        IN /\ v.valid <=> v.errors = << >>
           /\ clauses = << >> =>
                 /\ Len(v.errors) = 1
                 /\ v.errors[1].check = "noClauses"
           /\ clauses # << >> =>
                 /\ \A x \in failed : Reported(v.errors, x[1], x[2]) = 1
                 /\ Len(v.errors) = Cardinality(failed)

\* C18 witness: validate() was called on a builder whose first and third clause
\* each fail a check while the second fails none.
C18_Witness ==
    /\ lastCall.op = "validate"
    /\ Len(clauses) = 3
    /\ \E ch \in Checks : FailsCheck(0, ch)
    /\ \A ch \in Checks : ~FailsCheck(1, ch)
    /\ \E ch \in Checks : FailsCheck(2, ch)

\* The string writes a non-negative integer: decimal digits, or 0x and hex
\* digits.
IsNonNegativeInteger(str) ==
    /\ str # << >>
    /\ \/ \A i \in 1..Len(str) : str[i] \in DecChars
       \/ /\ Len(str) >= 3
          /\ str[1] = "0"
          /\ str[2] = "x"
          /\ \A i \in 3..Len(str) : str[i] \in HexChars

\* C19: validate() reports a violation for every clause whose value is not
\* parseable as a non-negative integer; a clause with a negative value is
\* reported.
C19_ValidateRejectsBadValue ==
    lastCall.op = "validate" =>
        \A i \in 0..(Len(clauses) - 1) :
            ~IsNonNegativeInteger(clauses[i + 1].value) =>
                Reported(lastCall.result[1].errors, i, "value") >= 1

\* C20: every add operation rejects a non-null recipient that is not a
\* 0x-prefixed 40-hex-character address, so the builder never holds a clause
\* with a malformed `to`.
C20_NoMalformedRecipient ==
    \A i \in 1..Len(clauses) :
        clauses[i].to # None => IsValidAddress(clauses[i].to[1])


\* ===================================================== unit converter: claims

\* The decimal digits of a non-negative integer, without leading zeros.
Canonical(ds) == StripLeadingZeros(ds)

IsInteger(str) == str # << >> /\ \A i \in 1..Len(str) : str[i] \in DecChars

EighteenDecimalUnits == {"vet", "vtho", "VET"}

RoundTripDone == conversion.back # None

\* C21: a non-negative integer n converted from the 18-decimal unit (vet or
\* vtho) to wei and back is n again, and a non-negative integer amount of wei
\* converted to vet and back to wei is that amount again.
C21_UnitRoundTrip ==
    (RoundTripDone /\ IsInteger(conversion.value)) =>
        /\ (conversion.fromUnit \in EighteenDecimalUnits /\ conversion.toUnit = "wei") =>
               conversion.back[1] = Returned(Canonical(conversion.value))
        /\ (conversion.fromUnit = "wei" /\ conversion.toUnit \in EighteenDecimalUnits) =>
               conversion.back[1] = Returned(Canonical(conversion.value))

\* An amount of wei below one VET went to "0.5" and came back.
C21_Witness ==
    /\ RoundTripDone
    /\ conversion.value = <<"5">> \o Repeat("0", 17)
    /\ conversion.fromUnit = "wei"
    /\ conversion.toUnit = "vet"
    /\ conversion.result[1] = Returned(<<"0", ".", "5">>)
    /\ conversion.back[1] = Returned(conversion.value)

\* The whole and the fractional digits of a decimal string.
WholeOf(str) == Split(str)[1]
FractionOf(str) == IF Includes(str, ".") THEN Split(str)[2] ELSE << >>

\* x times 10^18 for a decimal string x of at most 18 fractional digits: the
\* digits of x with the decimal point moved 18 places to the right.
TimesTenTo18(str) ==
    Canonical(WholeOf(str) \o FractionOf(str)
              \o Repeat("0", 18 - Len(FractionOf(str))))

\* w / 10^18 written out: the digits before the last 18 are the whole part,
\* the last 18 without their trailing zeros are the fraction.
Quotient18(w) ==
    LET padded == IF Len(w) > 18 THEN w ELSE Repeat("0", 19 - Len(w)) \o w
        n == Len(padded)
        wholePart == SubSeq(padded, 1, n - 18)
        digits == SubSeq(padded, n - 17, n)
        last == IF \A i \in 1..18 : digits[i] = "0" THEN 0
                ELSE CHOOSE i \in 1..18 :
                        digits[i] # "0" /\ \A j \in (i + 1)..18 : digits[j] = "0"
    IN IF last = 0 THEN wholePart ELSE wholePart \o <<".">> \o SubSeq(digits, 1, last)

ConvertReturned == conversion.result # None

\* C22: a non-negative decimal string x of at most 18 fractional digits
\* converted from vet to wei gives the exact integer x * 10^18 without a
\* decimal point, and an integer amount of wei converted to vet gives the exact
\* quotient, its trailing fractional zeros trimmed and without a decimal point
\* when it is integral.
C22_ExactConversion ==
    ConvertReturned =>
        /\ (/\ conversion.fromUnit = "vet" /\ conversion.toUnit = "wei"
            /\ Len(FractionOf(conversion.value)) <= 18) =>
               conversion.result[1] = Returned(TimesTenTo18(conversion.value))
        /\ (/\ conversion.fromUnit = "wei" /\ conversion.toUnit = "vet"
            /\ IsInteger(conversion.value)) =>
               conversion.result[1] = Returned(Quotient18(Canonical(conversion.value)))

\* "0.5" VET became 500000000000000000 wei.
C22_Witness ==
    /\ ConvertReturned
    /\ conversion.value = <<"0", ".", "5">>
    /\ conversion.fromUnit = "vet"
    /\ conversion.toUnit = "wei"
    /\ conversion.result[1] = Returned(<<"5">> \o Repeat("0", 17))


\* =================================================== energy calculator: claims

BothGenerated == energy.generated # None /\ energy.doubled # None

TickRange == (lastTick.from[1] + 1)..lastTick.best

\* C24: in a successful catch-up tick every block number of (cursor,
\* best.number] is gone over in ascending order and, for the log-based
\* categories, has its logs fetched and classified before the cursor is
\* advanced: the tick makes one log request per block of the range besides the
\* block requests, its events are in ascending block order, and no log of the
\* range that matches the criteria is missing from them.
C24_RangeCoverage ==
    lastTick.kind = "catchup" =>
        /\ lastTick.range = TickRange
        /\ triggerOn \in VetCategories =>
              /\ lastTick.fetches = 2 * Cardinality(TickRange) - 1
              /\ \A i, j \in 1..Len(lastTick.events) :
                    i < j => lastTick.events[i].blockNumber
                                <= lastTick.events[j].blockNumber
              /\ \A id \in MatchingLogs(lastTick.from[1], lastTick.best) :
                    \E i \in 1..Len(lastTick.events) : lastTick.events[i].txId = id


\* ============================================ the trigger over ticks: claims

\* Block b was produced after the activation and is FinalityDepth or more
\* behind the newest block.
ReachedFinality(b) ==
    /\ feed.mode = "blockFinalized"
    /\ feed.activatedAt # None
    /\ b > feed.activatedAt[1]
    /\ b <= feed.head - FinalityDepth

\* C25: in blockFinalized mode, with serialized ticks that keep succeeding and
\* a chain that keeps growing, every block produced after the activation is
\* eventually emitted as finalized once it is at least 12 blocks behind the
\* best block.
C25_FinalizedEventuallyEmitted ==
    \A b \in 1..MaxBest : ReachedFinality(b) ~> (b \in feed.finalized)


\* The cursor is behind the newest block / has caught up with it.
CursorBehind == feed.cursor # None /\ feed.cursor[1] < feed.head
CursorAtHead == feed.cursor # None /\ feed.cursor[1] = feed.head

\* C29: provided every chain call succeeds, a catch-up tick completes and
\* advances the cursor to best.number, for every category and every value of
\* its parameters, integral or fractional threshold alike: a cursor that is
\* behind the chain always catches up, the trigger is never stuck failing on
\* the same range.
C29_CatchUpProgress == CursorBehind ~> CursorAtHead

\* ============================================== token and NFT transfers: claims

\* A VIP-180 Transfer log: the Transfer topic followed by sender and recipient,
\* and no fourth topic.
IsVip180Transfer(log) == Len(log.topics) = 3 /\ log.topics[1] = TransferTopic

\* The log is a transfer from or to the monitored address.
InvolvesAddress(log, addr) ==
    \/ ToLowerCase(TopicAddress(log.topics[2])) = ToLowerCase(addr)
    \/ ToLowerCase(TopicAddress(log.topics[3])) = ToLowerCase(addr)

\* C26: in tokenTransfer mode every emitted event is that of a VIP-180 Transfer
\* log of the block whose sender or recipient is the monitored address and,
\* when a token contract is configured, whose emitting contract is that
\* contract; a VIP-181 Transfer log, which carries a fourth topic, is never
\* emitted as a token transfer.
C26_TokenTransferClassification ==
    (tokenScan.mode = "tokenTransfer" /\ tokenScan.result # None) =>
        \A i \in 1..Len(tokenScan.result[1]) :
            LET log == tokenScan.blockLogs[tokenScan.result[1][i].txId]
            IN /\ IsVip180Transfer(log)
               /\ InvolvesAddress(log, tokenScan.address)
               /\ tokenScan.contract # "" => log.address = tokenScan.contract


\* C27: across any sequence of serialized poll ticks, whatever best-block
\* numbers the node reports (also one lower than a number it reported earlier)
\* and whichever calls fail, the persisted cursor never decreases, and once it
\* is set it is never unset.
C27_CursorMonotonic ==
    [][lastBlockNumber # None =>
          /\ lastBlockNumber' # None
          /\ lastBlockNumber'[1] >= lastBlockNumber[1]]_vars

\* The node reported a best block below the cursor and the cursor stayed.
C27_Witness ==
    /\ lastBlockNumber # None
    /\ lastTick.kind = "idle"
    /\ lastTick.best < lastBlockNumber[1]


\* C28: when two poll ticks interleave (both read the cursor before either
\* writes it), the persisted cursor still never moves backwards and no block
\* number is in the range emitted by both ticks.
C28_OverlapKeepsCursorAndRanges ==
    /\ [][lastBlockNumber # None =>
             /\ lastBlockNumber' # None
             /\ lastBlockNumber'[1] >= lastBlockNumber[1]]_vars
    /\ [](\A b \in Blocks : emitCount[b] <= 1)


\* ============================================================ chain tags: claims

\* The chain tag the documentation gives for the public networks.
DocumentedTag(tag) ==
    /\ chainTags.network = "mainnet" => tag = 74
    /\ chainTags.network = "testnet" => tag = 39
    /\ chainTags.network = "solo" => tag = 246

\* C30: for every network selection (mainnet, testnet, solo, custom) the tag of
\* the transaction resource (ThorClient.getChainTag) equals the tag of the
\* resources with a local getChainTag, and it is 0x4a for mainnet, 0x27 for
\* testnet and 0xf6 for solo.
C30_ChainTagConsistency ==
    /\ chainTags.clientTag # None =>
          /\ chainTags.clientTag[1].status = "returned"
          /\ DocumentedTag(chainTags.clientTag[1].value)
    /\ \A r \in TagResources :
          chainTags.localTag[r] # None =>
             /\ DocumentedTag(chainTags.localTag[r][1])
             /\ chainTags.clientTag # None =>
                   chainTags.clientTag[1] = Returned(chainTags.localTag[r][1])

====
